---- MODULE Spec2Model ----
(***************************************************************************)
(* A model of the concrnt server: the timeline repository's chunked        *)
(* memcached cache, the timeline service, the commit dispatcher and the    *)
(* entity service.                                                         *)
(*                                                                         *)
(* Spec        - timeline repository: concurrent CreateItem calls and      *)
(*               chunk reads (LookupChunkItrs then LoadChunkBodies), each  *)
(*               split at its I/O boundaries (DB query, memcached call).   *)
(***************************************************************************)
EXTENDS Integers, Sequences, FiniteSets, TLC

(***************************************************************************)
(* Bounds of the model.                                                    *)
(***************************************************************************)
\* Timestamps are 0..MaxTime.
MaxTime == 3
\* Duration of one epoch (the design's 10 minutes), in model ticks.
ChunkLen == 2
\* LIMIT of the first query of loadLocalBody (32 in the source), scaled to
\* the number of rows the model can store.
defaultChunkSize == 2
\* The number of evictions by memcached that a behaviour holds.
MaxEvict == 1

Times == 0..MaxTime
Resources == {"m1", "m2"}
Writers == {"w1", "w2"}
Readers == {"r1"}

\* config.FQDN
FQDN == "local.ex"
\* The 26 characters of the one local timeline's id.
TlBody == "A"

None == [none |-> TRUE]

(***************************************************************************)
(* Identifier strings.  "t<26>@<host>" is [pfx |-> "t", body |-> <26>,     *)
(* host |-> <host>]; pfx "" is an id without its type character, host ""   *)
(* an id without "@<host>".                                                *)
(***************************************************************************)
Id(pfx, body, host) == [pfx |-> pfx, body |-> body, host |-> host]

\* The strings of 26 characters: the CDIDs of the local timelines A and B,
\* of the peer's timeline R, and one that names no timeline.
Cdids == {"A", "B", "R", "Z"}

\* len(id) == 27: one type character followed by the 26, and nothing else.
Len27(id) == id.pfx # "" /\ id.body \in Cdids /\ id.host = ""
\* len(id) == 26
Len26(id) == id.pfx = "" /\ id.body \in Cdids /\ id.host = ""
\* id[1:]
DropFirst(id) == [id EXCEPT !.pfx = ""]
\* "t" + id
PrependT(id) == [id EXCEPT !.pfx = "t"]
\* id + "@" + host
AppendHost(id, host) == [id EXCEPT !.host = host]
\* strings.Split(id, "@")[0]
SplitHead(id) == [id EXCEPT !.host = ""]

(***************************************************************************)
(* Epochs.  An epoch label is the first timestamp of its bucket.           *)
(***************************************************************************)
Time2Chunk(t) == (t \div ChunkLen) * ChunkLen
\* The bucket's upper bound: its last timestamp.
Chunk2RecentTime(c) == c + ChunkLen - 1
PrevChunk(c) == c - ChunkLen

Epochs == {Time2Chunk(t) : t \in Times}

(***************************************************************************)
(* memcached: a partial map from keys to values.  Replace and Prepend act  *)
(* only on a key that is stored.                                           *)
(***************************************************************************)
tlItrCachePrefix == "tl:itr:"
tlBodyCachePrefix == "tl:body:"

McKey(prefix, id, epoch) == [p |-> prefix, id |-> id, e |-> epoch]

McHas(m, k) == k \in DOMAIN m
McSet(m, k, v) == [x \in (DOMAIN m) \cup {k} |-> IF x = k THEN v ELSE m[x]]
McReplace(m, k, v) == IF McHas(m, k) THEN McSet(m, k, v) ELSE m
McPrepend(m, k, v) == IF McHas(m, k) THEN McSet(m, k, v \o m[k]) ELSE m
McDelete(m, k) == [x \in (DOMAIN m) \ {k} |-> m[x]]

(***************************************************************************)
(* A chunk body in memcached is the text of a JSON list without its        *)
(* brackets, behind a leading comma.  The text is a sequence of tokens.    *)
(***************************************************************************)
Comma == [k |-> "comma", v |-> None]
ItemTok(i) == [k |-> "item", v |-> i]
\* "ul": what b[1:len(b)-1] leaves of "null"
JunkTok == [k |-> "junk", v |-> None]

RECURSIVE JoinItems(_)
\* json.Marshal(items) without the brackets: i1,i2,...
JoinItems(s) ==
    IF Len(s) = 0 THEN << >>
    ELSE IF Len(s) = 1 THEN << ItemTok(s[1]) >>
    ELSE << ItemTok(s[1]), Comma >> \o JoinItems(Tail(s))

\* "," + string(b[1:len(b)-1])
EncodeBody(s) == << Comma >> \o JoinItems(s)
\* "," + string(json) of one item
EncodeItem(i) == << Comma, ItemTok(i) >>

\* Whether "[" + text + "]" is a JSON list.
IsJsonList(text) ==
    /\ Len(text) = 0 \/ Len(text) % 2 = 1
    /\ \A n \in 1..Len(text) :
          text[n].k = (IF n % 2 = 1 THEN "item" ELSE "comma")
\* The items of a JSON list text.
JsonItems(text) == [n \in 1..((Len(text) + 1) \div 2) |-> text[2 * n - 1].v]
\* cacheStr[1:]
DropFirstTok(text) == IF Len(text) = 0 THEN text ELSE Tail(text)

(***************************************************************************)
(* The timeline_items table.  A row is [timelineID, resourceID, cDate];    *)
(* (timelineID, resourceID) is its primary key.                            *)
(***************************************************************************)
Row(tid, res, t) == [timelineID |-> tid, resourceID |-> res, cDate |-> t]

HasKey(tbl, tid, res) ==
    \E x \in tbl : x.timelineID = tid /\ x.resourceID = res

\* Every listing of the rows S by c_date desc (rows of one c_date come in
\* any order).
DescSeqs(S) ==
    { s \in [1..Cardinality(S) -> S] :
        /\ \A a, b \in 1..Cardinality(S) : a # b => s[a] # s[b]
        /\ \A a, b \in 1..Cardinality(S) : a < b => s[a].cDate >= s[b].cDate }

Prefix(s, n) == SubSeq(s, 1, IF Len(s) < n THEN Len(s) ELSE n)

SeqRange(s) == { s[n] : n \in 1..Len(s) }

VARIABLES
    items,      \* the timeline_items table
    mc,         \* memcached
    wr,         \* the CreateItem calls in progress, per writer
    rd,         \* the chunk reads in progress, per reader
    committed,  \* the rows whose CreateItem has returned without error
    evictions,  \* the number of keys memcached has evicted
    calls,      \* the per-type service operations Commit has invoked
    commit,     \* the last Commit call: its document and its return
    policyDefaults, \* the global policy: each action's default
    events,     \* the events published to the pub/sub channels
    lastCall,   \* the last PostItem or Retract call and its return
    now,        \* the server's clock
    subs,       \* the pub/sub channels with a live subscription
    peer,       \* the timeline_items table of the peer
    recent,     \* the last GetRecentItems call and its return
    entities,   \* the entities table
    metas,      \* the entity_meta table
    entityCount, \* memcached's entity_count
    jtis,       \* the invitation JTIs that have been invalidated
    config,     \* the server's configuration: Registration and SiteKey
    lastAff,    \* the last Affiliation call, its return and the one before it
    aff,        \* the concurrent Affiliation calls in progress, per request
    lastPull,  \* the last PullEntityFromRemote call and the tables around it
    rt,  \* the Realtime goroutine of each client
    subscribers,  \* the Subscribe goroutines each Realtime has started
    client,  \* each client: context cancelled, still reading, requests sent
    lastResp,  \* the last event pushed to each client's response channel
    socketCounter,  \* service.socketCounter
    pub,  \* the events published and those queued for each client
    pubsubChannels,  \* the channel names the pub/sub server lists as subscribed
    connections,  \* agent.connections: the peers with a websocket
    sent,  \* the channels last written to each connected peer
    lastRun,  \* the last updateConnections run
    tlRows,  \* the ids of the rows of the timelines table
    timelineCount,  \* the value of the memcached key timeline_count
    absent,  \* the counter keys memcached does not hold
    lastCount,  \* the last Count call
    fan,  \* the last timeline read made while a cache or a peer was failing
    tlTable,  \* the timelines table, by id
    semantics,  \* the semantic ids: (name, owner) to timeline id
    createdAs,  \* the DomainOwned flag each timeline was created with
    lastUpsert,  \* the last service.UpsertTimeline call
    removed,  \* the resource ids RemoveItemsByResourceID has removed
    lastNorm,  \* the last NormalizeTimelineID call, its answer and the table's
    lastReq,  \* the last request through IdentifyIdentity and the context it left
    codec,  \* a CDID, the string String renders it to and what Parse returns for it
    conns,  \* agent.connections: the socket held for each peer
    socks,  \* the websockets dialed: open or closed, reader goroutine running or returned
    dials,  \* the number of dials made to each peer
    lastTick   \* the last updateConnections run over the sockets

\* The state of the timeline repository, and the state of the services
\* above it.
chunkVars == << items, mc, wr, rd, committed, evictions >>
commitVars == << calls, commit >>
postVars == << policyDefaults, events, lastCall >>
recentVars == << now, subs, peer, recent >>
entityVars == << entities, metas, entityCount, jtis, config, lastAff >>
raceVars == << aff >>
pullVars == << lastPull >>
rtVars == << rt, subscribers, client, lastResp, socketCounter, pub >>
agentVars == << pubsubChannels, connections, sent, lastRun >>
countVars == << tlRows, timelineCount, absent, lastCount >>
fanVars == << fan >>
tlVars == << tlTable, semantics, createdAs, lastUpsert >>
rmVars == << removed >>
normVars == << lastNorm >>
authVars == << lastReq >>
cdidVars == << codec >>
sockVars == << conns, socks, dials, lastTick >>
svcVars == << commitVars, postVars, recentVars, entityVars, raceVars, pullVars, rtVars, agentVars, countVars, fanVars, tlVars, rmVars, normVars, authVars, cdidVars, sockVars >>

\* What the calls of one service leave alone.
restOfCommit == << chunkVars, postVars, recentVars, entityVars, raceVars, pullVars, rtVars, agentVars, countVars, fanVars, tlVars, rmVars, normVars, authVars, cdidVars, sockVars >>
restOfPost == << wr, rd, committed, evictions, commitVars, recentVars, entityVars, raceVars, pullVars, rtVars, agentVars, countVars, fanVars, tlVars, rmVars, normVars, authVars, cdidVars, sockVars >>
restOfRecent == << wr, rd, committed, evictions, commitVars, postVars, entityVars, raceVars, pullVars, rtVars, agentVars, countVars, fanVars, tlVars, rmVars, normVars, authVars, cdidVars, sockVars >>
restOfEntity == << chunkVars, commitVars, postVars, recentVars, raceVars, pullVars, rtVars, agentVars, countVars, fanVars, tlVars, rmVars, normVars, authVars, cdidVars, sockVars >>
restOfRace == << chunkVars, commitVars, postVars, recentVars, lastAff, pullVars, rtVars, agentVars, countVars, fanVars, tlVars, rmVars, normVars, authVars, cdidVars, sockVars >>
restOfRt == << items, wr, rd, committed, evictions, commitVars, postVars, recentVars, entityVars, raceVars, pullVars, agentVars, countVars, fanVars, tlVars, rmVars, normVars, authVars, cdidVars, sockVars >>
restOfAgent == << chunkVars, commitVars, postVars, recentVars, entityVars, raceVars, pullVars, rtVars, countVars, fanVars, tlVars, rmVars, normVars, authVars, cdidVars, sockVars >>
restOfCount == << chunkVars, commitVars, postVars, recentVars, jtis, config, lastAff, raceVars, pullVars, rtVars, agentVars, fanVars, tlVars, rmVars, normVars, authVars, cdidVars, sockVars >>
restOfFan == << wr, rd, committed, evictions, commitVars, postVars, now, subs, recent, entityVars, raceVars, pullVars, rtVars, agentVars, countVars, tlVars, rmVars, normVars, authVars, cdidVars, sockVars >>
restOfTl == << wr, rd, committed, evictions, items, commitVars, events, lastCall, recentVars, entityVars, raceVars, pullVars, rtVars, agentVars, absent, lastCount, fanVars, rmVars, normVars, authVars, cdidVars, sockVars >>
restOfRm == << wr, rd, committed, evictions, commitVars, postVars, now, subs, recent, entityVars, raceVars, pullVars, rtVars, agentVars, countVars, tlVars, normVars, authVars, cdidVars, sockVars >>
restOfNorm == << items, wr, rd, committed, evictions, commitVars, postVars, recentVars, raceVars, pullVars, rtVars, agentVars, countVars, fanVars, tlVars, rmVars, authVars, cdidVars, sockVars >>
restOfAuth == << items, mc, wr, rd, committed, evictions, commitVars, postVars, recentVars, raceVars, pullVars, rtVars, agentVars, countVars, fanVars, tlVars, rmVars, normVars, cdidVars, sockVars >>
restOfSock == << chunkVars, commitVars, postVars, recentVars, entityVars, raceVars, pullVars, rtVars, connections, sent, lastRun, countVars, fanVars, tlVars, rmVars, normVars, authVars, cdidVars >>
restOfPull == << chunkVars, commitVars, postVars, recentVars, lastAff, raceVars, rtVars, agentVars, countVars, fanVars, tlVars, rmVars, normVars, authVars, cdidVars, sockVars >>

vars == << chunkVars, svcVars >>

PolicyActions == {"timeline.distribute", "timeline.retract"}

\* No Commit call has been made.
CommitIdle == [parsed |-> FALSE, valid |-> FALSE, type |-> "", target |-> "",
               op |-> "none", err |-> "nil"]

CommitInit ==
    /\ calls = << >>
    /\ commit = CommitIdle

\* No PostItem or Retract call has been made.
CallIdle == [op |-> "none", err |-> "nil", result |-> "", created |-> FALSE,
             doc |-> None, fetchOk |-> TRUE, deleted |-> {}, affected |-> {}]

PostInit ==
    /\ policyDefaults = [a \in PolicyActions |-> FALSE]
    /\ events = {}
    /\ lastCall = CallIdle

\* No GetRecentItems call has been made.
RecentIdle == [called |-> FALSE, ts |-> {}, until |-> 0, limit |-> 0,
               normalized |-> {}, out |-> << >>, rpcs |-> 0, read |-> FALSE,
               itr |-> 0, now |-> 0, subs |-> {}, repeat |-> FALSE,
               prev |-> None, rpcOk |-> TRUE, wrote |-> {}]

RecentInit ==
    /\ now = 0
    /\ subs = {}
    /\ peer = {}
    /\ recent = RecentIdle

\* No Affiliation call has been made.
AffIdle == [called |-> FALSE, doc |-> None, option |-> None, captcha |-> FALSE,
            err |-> "nil", ret |-> None, before |-> None,
            after |-> None, prev |-> None]

\* The requests that call Affiliation concurrently.
AffProcs == {"p1", "p2"}

\* A request that has not called Affiliation.
AffRest == [pc |-> "idle", doc |-> None, option |-> None, existence |-> {},
            err |-> "nil", ret |-> None, upserted |-> FALSE, jti |-> ""]

\* No request is in Affiliation.
RaceInit == aff = [p \in AffProcs |-> AffRest]

\* The clients with a realtime connection.
Clients == {"a", "b"}

\* The id of an event whose channel the mapper does not hold: "".
NoId == [pfx |-> "", body |-> "", host |-> ""]

\* Realtime at its select before the first request: no cancel function and
\* a nil mapper.
RtStart == [pc |-> "select", mapperSet |-> FALSE, mapper |-> << >>, list |-> {},
            event |-> None]
NoResp == [n |-> 0, timeline |-> NoId, channel |-> NoId, list |-> {}]

\* Every client has a connection whose Realtime waits for the first request.
RtInit ==
    /\ rt = [c \in Clients |-> RtStart]
    /\ subscribers = [c \in Clients |-> << >>]
    /\ client = [c \in Clients |-> [done |-> FALSE, reading |-> TRUE, reqs |-> 0]]
    /\ lastResp = [c \in Clients |-> NoResp]
    /\ socketCounter = Cardinality(Clients)
    /\ pub = [count |-> 0, queued |-> [c \in Clients |-> 0]]

\* The agent before its first tick: no connection.
AgentIdle == [called |-> FALSE, ok |-> FALSE, channels |-> {}]
AgentInit ==
    /\ pubsubChannels = {}
    /\ connections = {}
    /\ sent = << >>
    /\ lastRun = AgentIdle

\* The counters as the repositories leave them on an empty database.
CountIdle == [called |-> FALSE, key |-> "", missed |-> FALSE, present |-> FALSE,
              value |-> 0, rows |-> 0]
CountInit ==
    /\ tlRows = {}
    /\ timelineCount = 0
    /\ absent = {}
    /\ lastCount = CountIdle

\* No read has been made.
FanIdle == [called |-> FALSE, warmed |-> FALSE, op |-> "none", err |-> "nil",
            faults |-> None, failed |-> {}, result |-> << >>, ref |-> << >>]
FanInit == fan = FanIdle

\* No UpsertTimeline call has been made; the timelines table is empty.
UpsertIdle == [op |-> "none", err |-> "nil", id |-> "", domainOwned |-> FALSE,
               evalOk |-> TRUE, result |-> "", saved |-> FALSE]
TlInit ==
    /\ tlTable = << >>
    /\ semantics = << >>
    /\ createdAs = << >>
    /\ lastUpsert = UpsertIdle

\* Nothing has been removed.
RmInit == removed = {}

\* No NormalizeTimelineID call has been made.
NormIdle == [called |-> FALSE, timeline |-> None, ok |-> FALSE, id |-> None,
             hit |-> FALSE, entities |-> {}, semantics |-> << >>]
NormInit == lastNorm = NormIdle

\* No request has passed IdentifyIdentity.
ReqIdle ==
    [called |-> FALSE, jwt |-> None, passport |-> None, type |-> "Anonymous",
     id |-> "", domain |-> None, keychain |-> None, scores |-> << >>,
     before |-> {}, after |-> {}]
AuthInit == lastReq = ReqIdle
\* The zero value CDID{} and a codec that has rendered nothing.
DataLen == 10
TimeLen == 6
ZeroCdid == [data |-> [i \in 1..DataLen |-> 0], time |-> [i \in 1..TimeLen |-> 0]]
CodecIdle ==
    [stage |-> "new", c |-> ZeroCdid, s |-> << >>, given |-> << >>,
     out |-> ZeroCdid, err |-> "nil"]
CdidInit == codec = CodecIdle
\* No socket has been dialed and updateConnections has not run.
TickIdle ==
    [called |-> FALSE, dead |-> {}, dialOk |-> {}, writeOk |-> {}, dialed |-> {},
     sent |-> {}]
SockInit ==
    /\ conns = << >>
    /\ socks = << >>
    /\ dials = [p \in {"remote.ex", "other.ex"} |-> 0]
    /\ lastTick = TickIdle
\* No PullEntityFromRemote call has been made.
PullIdle == [called |-> FALSE, id |-> "", err |-> "nil", before |-> {}, after |-> {}]
PullInit == lastPull = PullIdle

\* An empty database, open registration without a captcha.
EntityInit ==
    /\ entities = {}
    /\ metas = {}
    /\ entityCount = 0
    /\ jtis = {}
    /\ config = [registration |-> "open", siteKey |-> "", invitePolicy |-> "Default"]
    /\ lastAff = AffIdle

\* The services above the repository before their first call.
SvcInit ==
    /\ CommitInit
    /\ PostInit
    /\ RecentInit
    /\ EntityInit
    /\ RaceInit
    /\ PullInit
    /\ RtInit
    /\ AgentInit
    /\ CountInit
    /\ FanInit
    /\ TlInit
    /\ RmInit
    /\ NormInit
    /\ AuthInit
    /\ CdidInit
    /\ SockInit

(***************************************************************************)
(* repository.CreateItem, one action per I/O boundary.                     *)
(***************************************************************************)
WrIdle == [pc |-> "idle", item |-> None, result |-> "none"]

\* The row db.Create inserts: the item with the "t" of a typed id dropped.
StoredRow(item) ==
    Row(IF Len27(item.timelineID) THEN DropFirst(item.timelineID)
        ELSE item.timelineID,
        item.resourceID, item.cDate)

\* A table without its primary key: every insert is taken.
DbCreateNoKey(tbl, row) == [ok |-> TRUE, tbl |-> tbl \cup {row}]

\* db.Create(&item): the primary key refuses a second row.
DbCreate(tbl, row) ==
    IF HasKey(tbl, row.timelineID, row.resourceID)
    THEN [ok |-> FALSE, tbl |-> tbl]
    ELSE [ok |-> TRUE, tbl |-> tbl \cup {row}]

\* timelineID := "t" + item.TimelineID + "@" + r.config.FQDN
CacheId(row) == AppendHost(PrependT(row.timelineID), FQDN)
ItrKeyOf(row) == McKey(tlItrCachePrefix, CacheId(row), Time2Chunk(row.cDate))
BodyKeyOf(row) == McKey(tlBodyCachePrefix, CacheId(row), Time2Chunk(row.cDate))

\* r.mc.Replace(itrKey, itemChunk)
CreateItemReplace(m, row) == McReplace(m, ItrKeyOf(row), Time2Chunk(row.cDate))
\* r.mc.Prepend(cacheKey, "," + json)
CreateItemPrepend(m, row) == McPrepend(m, BodyKeyOf(row), EncodeItem(row))

\* The call up to the insert: the id check, schema.UrlToID, db.Create.
CreateItemInsert(w) ==
    /\ wr[w].pc = "idle"
    /\ \E pfx \in {"t", "", "m"}, res \in Resources, t \in Times, schemaOk \in BOOLEAN :
         LET item == Row(Id(pfx, TlBody, ""), res, t)
             created == DbCreate(items, StoredRow(item))
         IN  IF Len27(item.timelineID) /\ item.timelineID.pfx # "t"
             THEN /\ wr' = [wr EXCEPT ![w] = [pc |-> "done", item |-> None,
                                               result |-> "InvalidID"]]
                  /\ items' = items
             ELSE IF ~schemaOk
             THEN /\ wr' = [wr EXCEPT ![w] = [pc |-> "done", item |-> None,
                                               result |-> "SchemaError"]]
                  /\ items' = items
             ELSE IF ~created.ok
             THEN /\ wr' = [wr EXCEPT ![w] = [pc |-> "done", item |-> item,
                                               result |-> "AlreadyExists"]]
                  /\ items' = items
             ELSE /\ wr' = [wr EXCEPT ![w] = [pc |-> "replace", item |-> item,
                                               result |-> "none"]]
                  /\ items' = created.tbl
    /\ UNCHANGED << mc, rd, committed, evictions >>
    /\ UNCHANGED svcVars

CreateItemItr(w) ==
    /\ wr[w].pc = "replace"
    /\ mc' = CreateItemReplace(mc, StoredRow(wr[w].item))
    /\ wr' = [wr EXCEPT ![w].pc = "prepend"]
    /\ UNCHANGED << items, rd, committed, evictions >>
    /\ UNCHANGED svcVars

CreateItemBody(w) ==
    /\ wr[w].pc = "prepend"
    /\ mc' = CreateItemPrepend(mc, StoredRow(wr[w].item))
    /\ wr' = [wr EXCEPT ![w].pc = "done", ![w].result = "ok"]
    /\ committed' = committed \cup {StoredRow(wr[w].item)}
    /\ UNCHANGED << items, rd, evictions >>
    /\ UNCHANGED svcVars

(***************************************************************************)
(* A chunk read of the local timeline: repository.LookupChunkItrs followed *)
(* by repository.LoadChunkBodies on its result, one action per I/O         *)
(* boundary.                                                               *)
(***************************************************************************)
RdIdle == [pc |-> "idle", epoch |-> 0, itr |-> 0, rows |-> << >>,
           has |-> FALSE, out |-> << >>, seen |-> {}]

\* The normalized id the reader asks for: t<26>@<FQDN>.
LocalTimeline == Id("t", TlBody, FQDN)

\* The id the local queries use: the text before "@", without its "t".
LocalDbId(timeline) ==
    IF Len27(SplitHead(timeline)) THEN DropFirst(SplitHead(timeline))
    ELSE SplitHead(timeline)

\* WHERE timeline_id = ? AND c_date <= ?
RowsUntil(tbl, dbid, until) ==
    { x \in tbl : x.timelineID = dbid /\ x.cDate <= until }
\* WHERE timeline_id = ? AND ? < c_date AND c_date <= ?
RowsBetween(tbl, dbid, after, until) ==
    { x \in tbl : x.timelineID = dbid /\ after < x.cDate /\ x.cDate <= until }

MaxCDate(S) == CHOOSE t \in { x.cDate : x \in S } : \A x \in S : x.cDate <= t

\* LookupChunkItrs: r.mc.GetMulti(keys); a hit is the result.
LookupChunkItrsGet(r) ==
    /\ rd[r].pc = "idle"
    /\ \E epoch \in Epochs :
         LET key == McKey(tlItrCachePrefix, LocalTimeline, epoch)
         IN  IF McHas(mc, key)
             THEN rd' = [rd EXCEPT ![r] = [RdIdle EXCEPT !.pc = "bodyGet",
                            !.epoch = epoch, !.itr = mc[key], !.seen = committed]]
             ELSE rd' = [rd EXCEPT ![r] = [RdIdle EXCEPT !.pc = "itrDb",
                            !.epoch = epoch, !.seen = committed]]
    /\ UNCHANGED << items, mc, wr, committed, evictions >>
    /\ UNCHANGED svcVars

\* lookupLocalItrs: SELECT timeline_id, max(c_date) ... GROUP BY timeline_id.
\* A timeline without a row has no entry in the result, and LoadChunkBodies
\* is then asked for nothing.
LookupLocalItrsQuery(r) ==
    /\ rd[r].pc = "itrDb"
    /\ LET found == RowsUntil(items, LocalDbId(LocalTimeline),
                              Chunk2RecentTime(rd[r].epoch))
       IN  IF found = {}
           THEN rd' = [rd EXCEPT ![r].pc = "done"]
           ELSE rd' = [rd EXCEPT ![r].pc = "itrSet",
                                 ![r].itr = Time2Chunk(MaxCDate(found))]
    /\ UNCHANGED << items, mc, wr, committed, evictions >>
    /\ UNCHANGED svcVars

\* lookupLocalItrs: r.mc.Set(itr key of the asked epoch, value).
LookupLocalItrsSet(r) ==
    /\ rd[r].pc = "itrSet"
    /\ mc' = McSet(mc, McKey(tlItrCachePrefix,
                             AppendHost(PrependT(LocalDbId(LocalTimeline)), FQDN),
                             rd[r].epoch),
                   rd[r].itr)
    /\ rd' = [rd EXCEPT ![r].pc = "bodyGet"]
    /\ UNCHANGED << items, wr, committed, evictions >>
    /\ UNCHANGED svcVars

\* LoadChunkBodies: r.mc.GetMulti(keys).  A hit is decoded (the first byte
\* dropped, brackets put around); a value that does not decode is skipped.
LoadChunkBodiesGet(r) ==
    /\ rd[r].pc = "bodyGet"
    /\ LET key == McKey(tlBodyCachePrefix, LocalTimeline, rd[r].itr)
       IN  IF McHas(mc, key)
           THEN IF IsJsonList(DropFirstTok(mc[key]))
                THEN rd' = [rd EXCEPT ![r].pc = "done", ![r].has = TRUE,
                               ![r].out = JsonItems(DropFirstTok(mc[key]))]
                ELSE rd' = [rd EXCEPT ![r].pc = "done"]
           ELSE rd' = [rd EXCEPT ![r].pc = "bodyDb"]
    /\ UNCHANGED << items, mc, wr, committed, evictions >>
    /\ UNCHANGED svcVars

\* loadLocalBody, first query: ... c_date <= chunkDate ORDER BY c_date desc
\* LIMIT defaultChunkSize.  items[len(items)-1] of an empty result panics.
LoadLocalBodyQuery(r) ==
    /\ rd[r].pc = "bodyDb"
    /\ \E s \in DescSeqs(RowsUntil(items, LocalDbId(LocalTimeline),
                                    Chunk2RecentTime(rd[r].itr))) :
         LET got == Prefix(s, defaultChunkSize)
         IN  IF Len(got) = 0
             THEN rd' = [rd EXCEPT ![r].pc = "panic"]
             ELSE IF got[Len(got)].cDate > Chunk2RecentTime(PrevChunk(rd[r].itr))
             THEN rd' = [rd EXCEPT ![r].pc = "bodyDb2", ![r].rows = got]
             ELSE rd' = [rd EXCEPT ![r].pc = "bodySet", ![r].rows = got]
    /\ UNCHANGED << items, mc, wr, committed, evictions >>
    /\ UNCHANGED svcVars

\* loadLocalBody, second query: every row inside the epoch.
LoadLocalBodyRequery(r) ==
    /\ rd[r].pc = "bodyDb2"
    /\ \E s \in DescSeqs(RowsBetween(items, LocalDbId(LocalTimeline),
                                      Chunk2RecentTime(PrevChunk(rd[r].itr)),
                                      Chunk2RecentTime(rd[r].itr))) :
         rd' = [rd EXCEPT ![r].pc = "bodySet", ![r].rows = s]
    /\ UNCHANGED << items, mc, wr, committed, evictions >>
    /\ UNCHANGED svcVars

\* items[i].TimelineID = item.TimelineID + "@" + r.config.FQDN
WithHost(rows) ==
    [n \in 1..Len(rows) |->
        [rows[n] EXCEPT !.timelineID = AppendHost(rows[n].timelineID, FQDN)]]

\* loadLocalBody: r.mc.Set(body key, "," + items) and the chunk returned.
LoadLocalBodySet(r) ==
    /\ rd[r].pc = "bodySet"
    /\ mc' = McSet(mc, McKey(tlBodyCachePrefix, LocalTimeline, rd[r].itr),
                   EncodeBody(WithHost(rd[r].rows)))
    /\ rd' = [rd EXCEPT ![r].pc = "done", ![r].rows = << >>, ![r].has = TRUE,
                         ![r].out = WithHost(rd[r].rows)]
    /\ UNCHANGED << items, wr, committed, evictions >>
    /\ UNCHANGED svcVars

\* The caller takes the result (or the panic is recovered); the reader may
\* read again.
ReadReturn(r) ==
    /\ rd[r].pc \in {"done", "panic"}
    /\ rd' = [rd EXCEPT ![r] = RdIdle]
    /\ UNCHANGED << items, mc, wr, committed, evictions >>
    /\ UNCHANGED svcVars

\* memcached drops a key (LRU eviction).
Evict ==
    /\ evictions < MaxEvict
    /\ \E k \in DOMAIN mc : mc' = McDelete(mc, k)
    /\ evictions' = evictions + 1
    /\ UNCHANGED << items, wr, rd, committed >>
    /\ UNCHANGED svcVars

\* No repository call in progress.
ChunkIdle ==
    /\ wr = [w \in Writers |-> WrIdle]
    /\ rd = [r \in Readers |-> RdIdle]
    /\ committed = {}
    /\ evictions = 0

Init ==
    /\ items = {}
    /\ mc = << >>
    /\ ChunkIdle
    /\ SvcInit

Next ==
    \/ \E w \in Writers : CreateItemInsert(w)
    \/ \E w \in Writers : CreateItemItr(w)
    \/ \E w \in Writers : CreateItemBody(w)
    \/ \E r \in Readers : LookupChunkItrsGet(r)
    \/ \E r \in Readers : LookupLocalItrsQuery(r)
    \/ \E r \in Readers : LookupLocalItrsSet(r)
    \/ \E r \in Readers : LoadChunkBodiesGet(r)
    \/ \E r \in Readers : LoadLocalBodyQuery(r)
    \/ \E r \in Readers : LoadLocalBodyRequery(r)
    \/ \E r \in Readers : LoadLocalBodySet(r)
    \/ \E r \in Readers : ReadReturn(r)
    \/ Evict

Spec == Init /\ [][Next]_vars

\* The same program with every call run to its end before the next
\* starts: no two handlers overlap.
OthersAtRest(p) ==
    /\ \A w \in Writers \ {p} : wr[w].pc \in {"idle", "done"}
    /\ \A r \in Readers \ {p} : rd[r].pc \in {"idle", "done", "panic"}

NextSerial ==
    \/ \E w \in Writers : OthersAtRest(w) /\ CreateItemInsert(w)
    \/ \E w \in Writers : OthersAtRest(w) /\ CreateItemItr(w)
    \/ \E w \in Writers : OthersAtRest(w) /\ CreateItemBody(w)
    \/ \E r \in Readers : OthersAtRest(r) /\ LookupChunkItrsGet(r)
    \/ \E r \in Readers : OthersAtRest(r) /\ LookupLocalItrsQuery(r)
    \/ \E r \in Readers : OthersAtRest(r) /\ LookupLocalItrsSet(r)
    \/ \E r \in Readers : OthersAtRest(r) /\ LoadChunkBodiesGet(r)
    \/ \E r \in Readers : OthersAtRest(r) /\ LoadLocalBodyQuery(r)
    \/ \E r \in Readers : OthersAtRest(r) /\ LoadLocalBodyRequery(r)
    \/ \E r \in Readers : OthersAtRest(r) /\ LoadLocalBodySet(r)
    \/ \E r \in Readers : OthersAtRest(r) /\ ReadReturn(r)
    \/ OthersAtRest("memcached") /\ Evict

SpecSerial == Init /\ [][NextSerial]_vars

(***************************************************************************)
(* Claims about the chunk cache.                                           *)
(***************************************************************************)
ResourcesOf(s) == { s[n].resourceID : n \in 1..Len(s) }

\* A finished read holds the row: its iterator is not older than the row's
\* epoch and its body lists the row's resource.
ReadHolds(read, row) ==
    /\ read.itr >= Time2Chunk(row.cDate)
    /\ read.has
    /\ row.resourceID \in ResourcesOf(read.out)

\* C1: once CreateItem(i) has returned without error, every read of i's
\* epoch that starts later resolves the iterator to an epoch not older than
\* i's and reads a body that contains i.
C1_ReadAfterCreate ==
    \A r \in Readers :
        rd[r].pc \in {"done", "panic"} =>
            \A row \in rd[r].seen :
                Time2Chunk(row.cDate) = rd[r].epoch =>
                    rd[r].pc = "done" /\ ReadHolds(rd[r], row)

C1_Witness ==
    \E r \in Readers : \E row \in rd[r].seen :
        /\ rd[r].pc = "done"
        /\ Time2Chunk(row.cDate) = rd[r].epoch
        /\ ReadHolds(rd[r], row)

Quiescent ==
    /\ \A w \in Writers : wr[w].pc \in {"idle", "done"}
    /\ \A r \in Readers : rd[r].pc \in {"idle", "done", "panic"}

\* C2: once a CreateItem(i) and the chunk reads that overlapped it have
\* all finished, a reader that follows the cached iterator of i's epoch is
\* led to a newer epoch or to i's epoch, and a body cached for that epoch
\* contains i.
C2_CacheHoldsItemAtRest ==
    Quiescent =>
        \A row \in committed :
            LET E == Time2Chunk(row.cDate)
                ik == McKey(tlItrCachePrefix, LocalTimeline, E)
                e == IF McHas(mc, ik) THEN mc[ik] ELSE E
                bk == McKey(tlBodyCachePrefix, LocalTimeline, e)
            IN  \/ e > E
                \/ /\ e = E
                   /\ McHas(mc, bk) =>
                         /\ IsJsonList(DropFirstTok(mc[bk]))
                         /\ row.resourceID \in
                                ResourcesOf(JsonItems(DropFirstTok(mc[bk])))

\* A call that went through db.Create: it inserted, or was refused.
Inserted(w) == wr[w].pc \in {"replace", "prepend"} \/ wr[w].result = "ok"
Refused(w) == wr[w].result = "AlreadyExists"
SameKey(a, b) ==
    /\ StoredRow(wr[a].item).timelineID = StoredRow(wr[b].item).timelineID
    /\ wr[a].item.resourceID = wr[b].item.resourceID

\* C3: of two concurrent CreateItem calls on one (TimelineID, ResourceID),
\* exactly one succeeds, the other returns AlreadyExists, and one row with
\* that key is stored.
C3_OneCreateWins ==
    \A a, b \in Writers :
        (a # b /\ (Inserted(a) \/ Refused(a)) /\ (Inserted(b) \/ Refused(b))
           /\ SameKey(a, b)) =>
            /\ (Inserted(a) /\ Refused(b)) \/ (Refused(a) /\ Inserted(b))
            /\ Cardinality({ x \in items :
                    /\ x.timelineID = StoredRow(wr[a].item).timelineID
                    /\ x.resourceID = wr[a].item.resourceID }) = 1

\* The second call is refused while the first is still between its insert
\* and its return.
C3_Witness ==
    \E a, b \in Writers :
        /\ a # b
        /\ wr[a].pc \in {"replace", "prepend"}
        /\ Refused(b)
        /\ SameKey(a, b)
        /\ wr[a].item.timelineID # wr[b].item.timelineID

(***************************************************************************)
(* SpecCommit - store.Commit, the single write entry point: it validates   *)
(* the signed document and dispatches it by type.                          *)
(***************************************************************************)
\* The number of service operations a behaviour invokes.
MaxCalls == 1

Signers == {"con1", "con2"}

\* A subkey: its id, its root key and, when revoked, the time from which
\* the revocation is effective.
SubKey(id, root, revoked, validUntil) ==
    [id |-> id, root |-> root, revoked |-> revoked, validUntil |-> validUntil]

\* The subkeys the key service has stored.
StoredKeys == { SubKey("cck1", "con1", TRUE, 1), SubKey("cck2", "con2", FALSE, 0) }
\* The subkeys a passport can carry (core.RequesterKeychainKey).
PassportKeys == { SubKey("cck3", "con1", FALSE, 0) }

Revoked(k, t) == k.revoked /\ t > k.validUntil

\* key.ValidateDocument: the signature is the signer's own, or that of the
\* subkey the document names, which then is rooted at the signer and not
\* revoked at SignedAt.
ValidateDocument(doc, signedBy, keys) ==
    IF doc.keyID = ""
    THEN signedBy = doc.signer
    ELSE \E k \in keys \cup StoredKeys :
            /\ k.id = doc.keyID
            /\ k.root = doc.signer
            /\ ~Revoked(k, doc.signedAt)
            /\ signedBy = k.id

DocTypes ==
    { "message", "association", "profile", "affiliation", "tombstone",
      "timeline", "ack", "unack", "subscription", "subscribe", "unsubscribe",
      "delete", "retract" }

\* doc.Target of a delete document: a typed id, the empty string, or a
\* JSON value that is no string ("#").
Targets == { "m", "a", "p", "t", "x", "", "#" }

\* The documents Commit is given, as far as Commit reads them: whether
\* json.Unmarshal accepts the text, base.Type, and the first character of
\* doc.Target.
Documents ==
    { [parsed |-> FALSE, type |-> "", target |-> ""] }
    \cup { [parsed |-> TRUE, type |-> t, target |-> ""] : t \in DocTypes \ {"delete"} }
    \cup { [parsed |-> TRUE, type |-> "delete", target |-> x] : x \in Targets }

Outcome(op, err) == [op |-> op, err |-> err]

\* The switch on base.Type, and on doc.Target[0] for a delete.
Dispatch(type, target) ==
    CASE type = "message" -> Outcome("message.Create", "nil")
      [] type = "association" -> Outcome("association.Create", "nil")
      [] type = "profile" -> Outcome("profile.Upsert", "nil")
      [] type = "affiliation" -> Outcome("entity.Affiliation", "nil")
      [] type = "tombstone" -> Outcome("entity.Tombstone", "nil")
      [] type = "timeline" -> Outcome("timeline.UpsertTimeline", "nil")
      [] type \in {"ack", "unack"} -> Outcome("ack.Ack", "nil")
      [] type = "subscription" -> Outcome("subscription.CreateSubscription", "nil")
      [] type = "subscribe" -> Outcome("subscription.Subscribe", "nil")
      [] type = "unsubscribe" -> Outcome("subscription.Unsubscribe", "nil")
      [] type = "delete" ->
            CASE target = "#" -> Outcome("none", "json")
              [] target = "" -> Outcome("none", "panic")
              [] target = "m" -> Outcome("message.Delete", "nil")
              [] target = "a" -> Outcome("association.Delete", "nil")
              [] target = "p" -> Outcome("profile.Delete", "nil")
              [] target = "t" -> Outcome("timeline.DeleteTimeline", "nil")
              [] OTHER -> Outcome("none", "unknown document type")
      [] OTHER -> Outcome("none", "unknown document type")

\* Commit without the return on a validation error.
CommitOutcomeUnchecked(parsed, valid, type, target) ==
    IF ~parsed THEN Outcome("none", "json") ELSE Dispatch(type, target)

\* The path Commit takes: the operation it invokes and the error it
\* returns itself.
CommitOutcome(parsed, valid, type, target) ==
    IF ~parsed THEN Outcome("none", "json")
    ELSE IF ~valid THEN Outcome("none", "validation")
    ELSE Dispatch(type, target)

\* store.Commit(document, signature, option).  opOk is the return of the
\* service operation invoked.
Commit ==
    /\ \E d \in Documents, signer \in Signers, keyID \in {"", "cck1", "cck2", "cck3"},
          signedAt \in Times, signedBy \in Signers \cup {"cck1", "cck2", "cck3"},
          keys \in SUBSET PassportKeys, opOk \in BOOLEAN :
          \E valid \in { d.parsed /\ ValidateDocument(
                               [keyID |-> keyID, signer |-> signer, signedAt |-> signedAt],
                               signedBy, keys) } :
          \E out \in { CommitOutcome(d.parsed, valid, d.type, d.target) } :
              /\ out.op # "none" => Len(calls) < MaxCalls
              /\ calls' = IF out.op # "none"
                          THEN Append(calls, [op |-> out.op, valid |-> valid])
                          ELSE calls
              /\ commit' = [parsed |-> d.parsed, valid |-> valid, type |-> d.type,
                            target |-> d.target, op |-> out.op,
                            err |-> IF out.op # "none" /\ ~opOk THEN "service" ELSE out.err]
    /\ UNCHANGED restOfCommit

InitCommit ==
    /\ items = {}
    /\ mc = << >>
    /\ ChunkIdle
    /\ SvcInit

NextCommit == Commit

SpecCommit == InitCommit /\ [][NextCommit]_vars

\* C4: every service operation Commit has invoked was invoked for a
\* document that key.ValidateDocument accepted, and a Commit whose document
\* parses but fails validation invokes nothing and returns the validation
\* error.
C4_ValidateBeforeDispatch ==
    /\ \A n \in 1..Len(calls) : calls[n].valid
    /\ (commit.parsed /\ ~commit.valid) =>
            (commit.op = "none" /\ commit.err = "validation")

\* Operations were invoked for valid documents, and the last Commit was
\* refused for its signature.
C4_Witness ==
    /\ Len(calls) > 0
    /\ commit.parsed /\ ~commit.valid
    /\ commit.type = "message"

(***************************************************************************)
(* SpecPost - the timeline service's write path: PostItem and             *)
(* PublishEvent, each call run to its end, over the repository's table     *)
(* and cache, which chunk reads fill.                                      *)
(* SpecRetract - service.Retract over the tables that posts leave.         *)
(***************************************************************************)
RemoteHost == "remote.ex"

\* The parts of what follows the first "@" of an id.
HostSplit(h) ==
    CASE h = "" -> << >>
      [] h = "con1@local.ex" -> << "con1", "local.ex" >>
      [] h = "con3@remote.ex" -> << "con3", "remote.ex" >>
      [] h = "con1@remote.ex" -> << "con1", "remote.ex" >>
      [] OTHER -> << h >>
\* len(strings.Split(id, "@"))
Parts(id) == 1 + Len(HostSplit(id.host))
\* split[len(split)-1], for an id of two or three parts
LastPart(id) == HostSplit(id.host)[Len(HostSplit(id.host))]

\* core.IsCCID
IsCCID(s) == s \in {"con1", "con2", "con3", "con9"}
\* cdid.IsSeemsCDID(id, 't')
IsSeemsCDID(id) == Len27(id) /\ id.pfx = "t"

\* The entities the entity service knows, with their domains.
EntityDomain(ccid) ==
    CASE ccid \in {"con1", "con2"} -> FQDN
      [] ccid = "con3" -> RemoteHost
      [] OTHER -> ""
\* entity.Get
EntityGet(ccid) ==
    IF EntityDomain(ccid) = "" THEN [ok |-> FALSE, ccid |-> "", domain |-> ""]
    ELSE [ok |-> TRUE, ccid |-> ccid, domain |-> EntityDomain(ccid)]

\* semanticid.Lookup(id, owner): con1 has named timeline A "home".
SemanticLookup(id, owner) ==
    IF id.pfx = "" /\ id.body = "home" /\ id.host = "" /\ owner = "con1"
    THEN [ok |-> TRUE, target |-> Id("t", "A", "")]
    ELSE [ok |-> FALSE, target |-> Id("", "", "")]

\* The timelines table: A is con1's, B is con2's and owned by the domain.
\* Both name the same policy document.
TimelineRow(b) ==
    IF b = "A"
    THEN [id |-> "A", author |-> "con1", domainOwned |-> FALSE, policy |-> "author"]
    ELSE [id |-> "B", author |-> "con2", domainOwned |-> TRUE, policy |-> "author"]
LocalTimelines == {"A", "B"}

\* repository.normalizeLocalDBID
normalizeLocalDBID(id) ==
    LET head == IF Parts(id) = 2 THEN SplitHead(id) ELSE id
        bare == IF Len27(head) THEN DropFirst(head) ELSE head
    IN  IF Parts(id) = 2 /\ id.host # FQDN THEN [ok |-> FALSE, id |-> id]
        ELSE IF Len27(head) /\ head.pfx # "t" THEN [ok |-> FALSE, id |-> id]
        ELSE IF ~Len26(bare) THEN [ok |-> FALSE, id |-> id]
        ELSE [ok |-> TRUE, id |-> bare]

\* repository.GetTimeline
RepoGetTimeline(id) ==
    LET n == normalizeLocalDBID(id)
    IN  IF n.ok /\ n.id.body \in LocalTimelines
        THEN [ok |-> TRUE, tl |-> TimelineRow(n.id.body)]
        ELSE [ok |-> FALSE, tl |-> TimelineRow("A")]

\* service.GetTimeline, for a key of two parts or more
GetTimeline(key) ==
    LET id == SplitHead(key)
        userid == IF Parts(key) = 3 THEN HostSplit(key.host)[1] ELSE LastPart(key)
        byId == RepoGetTimeline(id)
        target == SemanticLookup(id, userid)
    IN  IF LastPart(key) = FQDN THEN byId
        ELSE IF IsSeemsCDID(id) /\ byId.ok THEN byId
        ELSE IF ~target.ok THEN [ok |-> FALSE, tl |-> TimelineRow("A")]
        ELSE RepoGetTimeline(target.target)

\* An evaluation that ends in an error lets the request through.
EvalErrorAllows == "Allow"
\* The result TestWithPolicyURL returns next to an error.
EvalError == "Default"

\* policy.TestWithPolicyURL: the policy the URL names, evaluated for the
\* requester against the timeline.  The policy "author" never admits a
\* requester that is no entity, allows the timeline's author, denies the
\* entities of other domains and leaves the rest to the defaults.  A policy
\* that cannot be fetched evaluates to Default.
TestWithPolicyURL(url, requester, self, action, fetchOk) ==
    CASE ~fetchOk -> EvalError
      [] url = "author" ->
            CASE requester.ccid = "" -> "Never"
              [] requester.ccid = self.author -> "Allow"
              [] requester.domain # FQDN -> "Deny"
              [] OTHER -> "Default"
      [] OTHER -> "Default"

\* A summary that allows everything.
SummerizeAllow(results, action) == TRUE

\* policy.Summerize: a Never vetoes, otherwise the first result that is
\* not Default wins, and the action's global default is the fallback.
Summerize(results, action) ==
    LET decided == { n \in 1..Len(results) : results[n] # "Default" }
        first == CHOOSE n \in decided : \A k \in decided : n <= k
    IN  IF \E n \in 1..Len(results) : results[n] = "Never" THEN FALSE
        ELSE IF decided = {} THEN policyDefaults[action]
        ELSE results[first] = "Allow"

\* repository.CreateItem, run to its end.
CreateItem(tbl, m, item, schemaOk) ==
    LET row == StoredRow(item)
        created == DbCreate(tbl, row)
    IN  IF Len27(item.timelineID) /\ item.timelineID.pfx # "t"
        THEN [err |-> "InvalidID", tbl |-> tbl, mc |-> m]
        ELSE IF ~schemaOk THEN [err |-> "SchemaError", tbl |-> tbl, mc |-> m]
        ELSE IF ~created.ok THEN [err |-> "AlreadyExists", tbl |-> tbl, mc |-> m]
        ELSE [err |-> "nil", tbl |-> created.tbl,
              mc |-> CreateItemPrepend(CreateItemReplace(m, row), row)]

\* service.PostItem: its error, the policy result it reached (if any),
\* whether it called repo.CreateItem, and the table and cache it leaves.
PostItemResult(tbl, m, timeline, item, schemaOk, fetchOk) ==
    LET Fail(e, res) == [err |-> e, result |-> res, created |-> FALSE,
                         tbl |-> tbl, mc |-> m]
        ent == EntityGet(timeline.host)
        timelineHost == IF IsCCID(timeline.host) THEN ent.domain ELSE timeline.host
        head == SplitHead(timeline)
        semantic == ~IsSeemsCDID(head) /\ timelineHost = FQDN /\ IsCCID(timeline.host)
        target == SemanticLookup(head, timeline.host)
        timelineID == IF semantic THEN target.target ELSE head
        author == IF item.author # "" THEN item.author ELSE item.owner
        tl == GetTimeline(timeline)
        requesterEntity == EntityGet(author)
        result == TestWithPolicyURL(tl.tl.policy, requesterEntity, tl.tl,
                                    "timeline.distribute", fetchOk)
        writable == Summerize(<< result >>, "timeline.distribute")
        created == CreateItem(tbl, m,
                              Row(timelineID, item.resourceID, item.cDate), schemaOk)
    IN  IF Parts(timeline) # 2 THEN Fail("Invalid format", "")
        ELSE IF IsCCID(timeline.host) /\ ~ent.ok THEN Fail("entity not found", "")
        ELSE IF semantic /\ ~target.ok THEN Fail("semantic id not found", "")
        ELSE IF timelineHost # FQDN THEN Fail("remote timeline is not supported", "")
        ELSE IF ~tl.ok THEN Fail("timeline not found", "")
        ELSE IF ~writable THEN Fail("no write access", result)
        ELSE [err |-> created.err, result |-> result, created |-> TRUE,
              tbl |-> created.tbl, mc |-> created.mc]

\* The ids PostItem is called with.
PostTargets ==
    { Id("t", "A", FQDN), Id("t", "B", FQDN), Id("t", "Z", FQDN),
      Id("t", "A", RemoteHost), Id("t", "A", ""), Id("t", "A", "con1@local.ex"),
      Id("t", "A", "con1"), Id("t", "A", "con3"), Id("t", "A", "con9"),
      Id("", "home", "con1"), Id("", "home", "con2"), Id("", "home", FQDN) }

\* The c_date of the items posted: one in the first epoch, one in the last.
PostTimes == {0, MaxTime}

\* The calls of PostItem: every item and requester on the id t<A>@<FQDN>,
\* and one call on each of the other ids.
PostRequests ==
    { [timeline |-> Id("t", "A", FQDN), resourceID |-> res, owner |-> "con1",
       author |-> a, cDate |-> t, schemaOk |-> so, fetchOk |-> fo] :
        res \in Resources, a \in {"", "con2", "con3", "con9"}, t \in PostTimes,
        so \in BOOLEAN, fo \in BOOLEAN }
    \cup { [timeline |-> x, resourceID |-> "m1", owner |-> "con1", author |-> "",
            cDate |-> 0, schemaOk |-> TRUE, fetchOk |-> TRUE] :
            x \in PostTargets }

PostItem ==
    /\ \E q \in PostRequests :
          \E r \in { PostItemResult(items, mc, q.timeline, q, q.schemaOk, q.fetchOk) } :
              /\ items' = r.tbl
              /\ mc' = r.mc
              /\ lastCall' = [CallIdle EXCEPT !.op = "PostItem", !.err = r.err,
                                 !.result = r.result, !.created = r.created,
                                 !.fetchOk = q.fetchOk]
    /\ UNCHANGED << restOfPost, policyDefaults, events >>

\* repository.GetItem: the row of that timeline_id and resource_id.
GetItem(tbl, timelineID, objectID) ==
    { x \in tbl : x.timelineID = timelineID /\ x.resourceID = objectID }

\* repository.DeleteItem
DeleteItem(tbl, timelineID, objectID) == tbl \ GetItem(tbl, timelineID, objectID)

\* service.Retract: its error, the policy result it reached, the table it
\* leaves and the affected list it returns.
RetractResult(tbl, doc, fetchOk) ==
    LET Fail(e, res) == [err |-> e, result |-> res, tbl |-> tbl, affected |-> {}]
        existing == GetItem(tbl, doc.timeline, doc.target)
        signer == EntityGet(doc.signer)
        timeline == RepoGetTimeline(doc.id)
        policyResult == TestWithPolicyURL(timeline.tl.policy, signer, timeline.tl,
                                          "timeline.retract", fetchOk)
        result == Summerize(<< policyResult >>, "timeline.retract")
    IN  IF ~doc.parsed THEN Fail("json", "")
        ELSE IF existing = {} THEN Fail("not found", "")
        ELSE IF ~signer.ok THEN Fail("entity not found", "")
        ELSE IF ~timeline.ok THEN Fail("timeline not found", "")
        ELSE IF ~result THEN Fail("no retract access", policyResult)
        ELSE [err |-> "nil", result |-> policyResult,
              tbl |-> DeleteItem(tbl, doc.timeline, doc.target),
              affected |-> IF timeline.tl.domainOwned THEN {FQDN}
                           ELSE {timeline.tl.author}]

\* The retract documents: Timeline and Target name the item, ID is the
\* document's own id field.
RetractDocuments ==
    { [parsed |-> FALSE, timeline |-> Id("", "", ""), target |-> "", signer |-> "",
       id |-> Id("", "", "")] }
    \cup
    { [parsed |-> TRUE, timeline |-> tl, target |-> res, signer |-> sg, id |-> id] :
        tl \in { Id("", "A", ""), Id("", "B", ""), Id("t", "A", FQDN) },
        res \in Resources,
        sg \in { "con1", "con2", "con3", "con9" },
        id \in { Id("t", "A", ""), Id("t", "B", FQDN), Id("", "B", ""),
                 Id("", "", ""), Id("t", "A", RemoteHost) } }

Retract ==
    /\ \E doc \in RetractDocuments, fetchOk \in BOOLEAN :
          \E r \in { RetractResult(items, doc, fetchOk) } :
              /\ items' = r.tbl
              /\ lastCall' = [CallIdle EXCEPT !.op = "Retract", !.err = r.err,
                                 !.result = r.result, !.doc = doc,
                                 !.fetchOk = fetchOk, !.deleted = items \ r.tbl,
                                 !.affected = r.affected]
    /\ UNCHANGED << mc, restOfPost, policyDefaults, events >>

normaalizationCachePrefix == "tl:norm:"
NormKey(id) == McKey(normaalizationCachePrefix, id, -1)

\* userid + "@" + domain
JoinHost(userid, domain) ==
    CASE userid = "con3" /\ domain = RemoteHost -> "con3@remote.ex"
      [] userid = "con1" /\ domain = FQDN -> "con1@local.ex"
      [] userid = "con1" /\ domain = RemoteHost -> "con1@remote.ex"
      [] OTHER -> "@"

\* service.NormalizeTimelineID: the normalized id and the cache it leaves.
NormalizeTimelineID(m, timeline) ==
    LET id == SplitHead(timeline)
        last == LastPart(timeline)
        ent == EntityGet(last)
        userid == IF IsCCID(last) THEN last
                  ELSE IF Parts(timeline) = 3 THEN HostSplit(timeline.host)[1]
                  ELSE ""
        domain == IF IsCCID(last) THEN ent.domain ELSE last
        target == SemanticLookup(id, userid)
        normalized ==
            IF domain = FQDN
            THEN IF IsSeemsCDID(id) THEN AppendHost(id, domain)
                 ELSE AppendHost(target.target, domain)
            ELSE IF IsSeemsCDID(id) THEN AppendHost(id, domain)
                 ELSE AppendHost(id, JoinHost(userid, domain))
    IN  IF McHas(m, NormKey(timeline))
        THEN [ok |-> TRUE, id |-> m[NormKey(timeline)], mc |-> m]
        ELSE IF Parts(timeline) = 1
        THEN [ok |-> TRUE, id |-> AppendHost(timeline, FQDN), mc |-> m]
        ELSE IF IsCCID(last) /\ ~ent.ok THEN [ok |-> FALSE, id |-> timeline, mc |-> m]
        ELSE IF domain = FQDN /\ ~IsSeemsCDID(id) /\ ~target.ok
        THEN [ok |-> FALSE, id |-> timeline, mc |-> m]
        ELSE [ok |-> TRUE, id |-> normalized,
              mc |-> McSet(m, NormKey(timeline), normalized)]

\* service.PublishEvent: the event goes to the channel of the normalized
\* id, or of the id as given when that cannot be normalized.
PublishEvent ==
    /\ \E timeline \in { Id("t", "A", "con1"), Id("", "home", "con2") },
          res \in { "m1" } :
          \E n \in { NormalizeTimelineID(mc, timeline) } :
              /\ events' = events \cup
                     {[timeline |-> IF n.ok THEN n.id ELSE timeline, resourceID |-> res]}
              /\ mc' = n.mc
    /\ UNCHANGED << items, restOfPost, policyDefaults, lastCall >>

\* A chunk read of a local timeline run to its end: LookupChunkItrs, then
\* LoadChunkBodies on its result.  A timeline without a row up to the epoch
\* has no iterator and nothing is loaded; loadLocalBody panics on an empty
\* first query, after the iterator was stored.
ReadChunks ==
    /\ \E b \in { "A" }, epoch \in Epochs :
          LET id == Id("t", b, FQDN)
              ik == McKey(tlItrCachePrefix, id, epoch)
              found == RowsUntil(items, LocalDbId(id), Chunk2RecentTime(epoch))
              m1 == IF McHas(mc, ik) \/ found = {} THEN mc
                    ELSE McSet(mc, ik, Time2Chunk(MaxCDate(found)))
              itr == m1[ik]
              bk == McKey(tlBodyCachePrefix, id, itr)
          IN  IF ~McHas(m1, ik) \/ McHas(m1, bk)
              THEN mc' = m1
              ELSE \E s \in DescSeqs(RowsUntil(items, LocalDbId(id), Chunk2RecentTime(itr))) :
                      LET got == Prefix(s, defaultChunkSize)
                      IN  IF Len(got) = 0 THEN mc' = m1
                          ELSE IF got[Len(got)].cDate > Chunk2RecentTime(PrevChunk(itr))
                          THEN \E q \in DescSeqs(RowsBetween(items, LocalDbId(id),
                                                   Chunk2RecentTime(PrevChunk(itr)),
                                                   Chunk2RecentTime(itr))) :
                                  mc' = McSet(m1, bk, EncodeBody(WithHost(q)))
                          ELSE mc' = McSet(m1, bk, EncodeBody(WithHost(got)))
    /\ UNCHANGED << items, wr, rd, committed, evictions, svcVars >>

InitPost ==
    /\ items = {}
    /\ mc = << >>
    /\ ChunkIdle
    /\ CommitInit
    /\ \E d \in BOOLEAN : policyDefaults = [a \in PolicyActions |-> d]
    /\ events = {}
    /\ lastCall = CallIdle
    /\ RecentInit
    /\ EntityInit
    /\ RaceInit
    /\ PullInit
    /\ RtInit
    /\ AgentInit
    /\ CountInit
    /\ FanInit
    /\ TlInit
    /\ RmInit
    /\ NormInit
    /\ AuthInit
    /\ CdidInit
    /\ SockInit

NextPost ==
    \/ PostItem
    \/ PublishEvent
    \/ ReadChunks

SpecPost == InitPost /\ [][NextPost]_vars

\* The tables Retract finds: the rows posts have left on A and B.
RetractTables ==
    { tbl \in SUBSET { Row(Id("", b, ""), res, 0) : b \in LocalTimelines, res \in Resources } :
        tbl # {} }

InitRetract ==
    /\ items \in RetractTables
    /\ mc = << >>
    /\ ChunkIdle
    /\ CommitInit
    /\ \E d \in BOOLEAN : policyDefaults = [a \in PolicyActions |-> d]
    /\ events = {}
    /\ lastCall = CallIdle
    /\ RecentInit
    /\ EntityInit
    /\ RaceInit
    /\ PullInit
    /\ RtInit
    /\ AgentInit
    /\ CountInit
    /\ FanInit
    /\ TlInit
    /\ RmInit
    /\ NormInit
    /\ AuthInit
    /\ CdidInit
    /\ SockInit

NextRetract == Retract

SpecRetract == InitRetract /\ [][NextRetract]_vars

\* What the summary of one policy result is: Allow, or Default under a
\* global default that allows.
PolicySummaryAllows(result, action) ==
    result = "Allow" \/ (result = "Default" /\ policyDefaults[action])

\* C5: a PostItem call reaches repo.CreateItem only when the summary of the
\* timeline.distribute policy result is allow; when it is not, the call
\* returns an error and leaves the table, the cache and the published
\* events as they were.
C5_DistributeGate ==
    [][ PostItem =>
          LET allow == PolicySummaryAllows(lastCall'.result, "timeline.distribute")
          IN  /\ lastCall'.created => allow
              /\ ~allow => /\ lastCall'.err # "nil"
                           /\ items' = items
                           /\ mc' = mc
                           /\ events' = events ]_vars

\* A post was refused by the policy while the timeline held a row, its
\* chunk was cached and an event had been published.
C5_Witness ==
    /\ lastCall.op = "PostItem"
    /\ lastCall.err = "no write access"
    /\ lastCall.result \in {"Deny", "Never", "Default"}
    /\ items # {}
    /\ \E k \in DOMAIN mc : k.p = tlBodyCachePrefix
    /\ events # {}

\* The timeline that holds the rows a call deleted.
HolderOf(call) == TimelineRow((CHOOSE x \in call.deleted : TRUE).timelineID.body)

\* C6: a Retract that deleted something deleted exactly the row (Timeline,
\* Target) of its document, the timeline.retract policy of the timeline
\* holding that row allows the signer, and the affected list is that
\* timeline's author, or the own FQDN when the timeline is DomainOwned.
C6_RetractByHolderPolicy ==
    (lastCall.op = "Retract" /\ lastCall.deleted # {}) =>
        LET doc == lastCall.doc
            holder == HolderOf(lastCall)
        IN  /\ lastCall.deleted = { x \in lastCall.deleted :
                                     x.timelineID = doc.timeline /\ x.resourceID = doc.target }
            /\ Cardinality(lastCall.deleted) = 1
            /\ PolicySummaryAllows(
                   TestWithPolicyURL(holder.policy, EntityGet(doc.signer), holder,
                                     "timeline.retract", lastCall.fetchOk),
                   "timeline.retract")
            /\ lastCall.affected = IF holder.domainOwned THEN {FQDN} ELSE {holder.author}

(***************************************************************************)
(* SpecRecent - service.GetRecentItems on the local timelines A and B,     *)
(* next to repository.CreateItem calls.                                    *)
(* SpecRemote - service.GetRecentItems on the peer's timeline R, next to   *)
(* the clock and the realtime subscriptions.                               *)
(***************************************************************************)
\* The largest limit GetRecentItems is called with.
MaxLimit == 2
\* LIMIT of the query of GetChunksFromDB.
dbChunkLimit == 100

tlItrAllPrefix == "timeline:itr:all:"
tlBodyAllPrefix == "timeline:body:all:"

\* items[i].TimelineID = item.TimelineID + "@" + <the serving domain>
WithHostOf(rows, host) ==
    [n \in 1..Len(rows) |->
        [rows[n] EXCEPT !.timelineID = AppendHost(rows[n].timelineID, host)]]

\* GetChunkIterators for one timeline: the cached body key, or on a miss
\* the key of the epoch of the newest row up to the chunk's end.
ChunkIterator(tbl, m, timeline, chunk) ==
    LET key == McKey(tlItrAllPrefix, timeline, chunk)
        found == RowsUntil(tbl, LocalDbId(timeline), Chunk2RecentTime(chunk))
    IN  IF McHas(m, key) THEN [has |-> TRUE, key |-> m[key], set |-> FALSE]
        ELSE IF found = {} THEN [has |-> FALSE, key |-> key, set |-> FALSE]
        ELSE [has |-> TRUE, set |-> TRUE,
              key |-> McKey(tlBodyAllPrefix, timeline, Time2Chunk(MaxCDate(found)))]

\* repository.GetChunkIterators
GetChunkIterators(tbl, m, timelines, chunk) ==
    LET newKeys == { McKey(tlItrAllPrefix, t, chunk) :
                       t \in { x \in timelines : ChunkIterator(tbl, m, x, chunk).set } }
    IN  [result |-> [t \in { x \in timelines : ChunkIterator(tbl, m, x, chunk).has } |->
                        ChunkIterator(tbl, m, t, chunk).key],
         mc |-> [k \in (DOMAIN m) \cup newKeys |->
                    IF k \in DOMAIN m THEN m[k]
                    ELSE ChunkIterator(tbl, m, k.id, chunk).key]]

\* repository.GetChunksFromCache
GetChunksFromCache(tbl, m, timelines, chunk) ==
    LET it == GetChunkIterators(tbl, m, timelines, chunk)
        Hit(t) == /\ t \in DOMAIN it.result
                  /\ McHas(it.mc, it.result[t])
                  /\ Len(it.mc[it.result[t]]) > 0
                  /\ IsJsonList(DropFirstTok(it.mc[it.result[t]]))
    IN  [result |-> [t \in { x \in timelines : Hit(x) } |->
                        JsonItems(DropFirstTok(it.mc[it.result[t]]))],
         mc |-> it.mc]

\* The listings the query of GetChunksFromDB can return, per timeline.
DbOrders(tbl, timelines, chunk) ==
    { o \in [timelines -> UNION { DescSeqs(RowsUntil(tbl, LocalDbId(t), Chunk2RecentTime(chunk))) :
                                   t \in timelines }] :
        \A t \in timelines :
            o[t] \in DescSeqs(RowsUntil(tbl, LocalDbId(t), Chunk2RecentTime(chunk))) }

\* repository.GetChunksFromDB: every timeline gets the rows up to the
\* chunk's end, and they are cached under the iterator's key when there
\* is one.
GetChunksFromDB(tbl, m, timelines, chunk, order) ==
    LET it == GetChunkIterators(tbl, m, timelines, chunk)
        rows(t) == WithHostOf(Prefix(order[t], dbChunkLimit), FQDN)
        keyed == { t \in timelines : t \in DOMAIN it.result }
        newKeys == { it.result[t] : t \in keyed }
        tlOf(k) == CHOOSE t \in keyed : it.result[t] = k
    IN  [result |-> [t \in timelines |-> rows(t)],
         mc |-> [k \in (DOMAIN it.mc) \cup newKeys |->
                    IF k \in newKeys THEN EncodeBody(rows(tlOf(k))) ELSE it.mc[k]]]

\* repository.GetCurrentSubs: the channels named <id>@<host>.
GetCurrentSubs == { ch \in subs : Parts(ch) = 2 }

\* Nothing fetched from a peer is kept.
RemoteKeepNothing(epoch, timeline) == FALSE
\* Everything fetched from a peer is kept.
RemoteKeepAll(epoch, timeline) == TRUE

\* What lookupRemoteItrs and loadRemoteBodies keep of a peer's answer: all
\* but an entry of the current epoch for a timeline without a live
\* subscription.
RemoteKeep(epoch, timeline) ==
    ~(epoch = Time2Chunk(now) /\ timeline \notin GetCurrentSubs)

\* client.GetChunkItrs: the peer's iterators, from its own table.
PeerItrs(p, timelines, epoch) ==
    [t \in { x \in timelines :
               RowsUntil(p, LocalDbId(x), Chunk2RecentTime(epoch)) # {} } |->
        Time2Chunk(MaxCDate(RowsUntil(p, LocalDbId(t), Chunk2RecentTime(epoch))))]

\* The bodies the peer can answer with for one timeline and epoch: what
\* its loadLocalBody reads.
PeerBodies(p, timeline, epoch) ==
    LET dbid == LocalDbId(timeline)
        Body(s) ==
            LET got == Prefix(s, defaultChunkSize)
            IN  IF Len(got) = 0 THEN {}
                ELSE IF got[Len(got)].cDate > Chunk2RecentTime(PrevChunk(epoch))
                THEN DescSeqs(RowsBetween(p, dbid, Chunk2RecentTime(PrevChunk(epoch)),
                                          Chunk2RecentTime(epoch)))
                ELSE {got}
    IN  { WithHostOf(b, RemoteHost) :
            b \in UNION { Body(s) : s \in DescSeqs(RowsUntil(p, dbid, Chunk2RecentTime(epoch))) } }

\* client.GetChunkBodies: the answers the peer can give to a query.
PeerAnswers(p, query) ==
    LET served == { t \in DOMAIN query : PeerBodies(p, t, query[t]) # {} }
    IN  { a \in [served -> UNION { PeerBodies(p, t, query[t]) : t \in served }] :
            \A t \in served : a[t] \in PeerBodies(p, t, query[t]) }

\* repository.lookupRemoteItrs
lookupRemoteItrs(m, domain, timelines, epoch, rpcOk) ==
    LET result == PeerItrs(peer, timelines, epoch)
        kept == { t \in DOMAIN result : RemoteKeep(epoch, t) }
        keys == { McKey(tlItrCachePrefix, t, epoch) : t \in kept }
    IN  IF ~rpcOk THEN [ok |-> FALSE, result |-> << >>, mc |-> m]
        ELSE [ok |-> TRUE, result |-> result,
              mc |-> [k \in (DOMAIN m) \cup keys |->
                         IF k \in keys THEN result[k.id] ELSE m[k]]]

\* repository.loadRemoteBodies, given the peer's answer
loadRemoteBodies(m, remote, query, rpcOk, answer) ==
    LET kept == { t \in DOMAIN answer : RemoteKeep(query[t], t) }
        keys == { McKey(tlBodyCachePrefix, t, query[t]) : t \in kept }
    IN  IF ~rpcOk THEN [ok |-> FALSE, result |-> << >>, mc |-> m]
        ELSE [ok |-> TRUE, result |-> answer,
              mc |-> [k \in (DOMAIN m) \cup keys |->
                         IF k \in keys THEN EncodeBody(answer[k.id]) ELSE m[k]]]

\* repository.LookupChunkItrs on timelines of the peer: the cached
\* iterators, and one RPC for the timelines that missed.
LookupChunkItrs(m, timelines, epoch, rpcOk) ==
    LET hits == { t \in timelines : McHas(m, McKey(tlItrCachePrefix, t, epoch)) }
        missed == timelines \ hits
        r == lookupRemoteItrs(m, RemoteHost, missed, epoch, rpcOk)
        got == IF missed # {} /\ r.ok THEN DOMAIN r.result ELSE {}
    IN  [result |-> [t \in hits \cup got |->
                        IF t \in hits THEN m[McKey(tlItrCachePrefix, t, epoch)]
                        ELSE r.result[t]],
         mc |-> IF missed # {} THEN r.mc ELSE m,
         rpcs |-> IF missed # {} THEN 1 ELSE 0]

\* The part of a query LoadChunkBodies does not find in the cache.
BodiesMissed(m, query) ==
    [t \in { x \in DOMAIN query : ~McHas(m, McKey(tlBodyCachePrefix, x, query[x])) } |->
        query[t]]

\* repository.LoadChunkBodies on timelines of the peer: the cached bodies
\* that decode, and one RPC for the timelines that missed.
LoadChunkBodies(m, query, rpcOk, answer) ==
    LET missed == BodiesMissed(m, query)
        Text(t) == DropFirstTok(m[McKey(tlBodyCachePrefix, t, query[t])])
        hits == { t \in (DOMAIN query) \ (DOMAIN missed) : IsJsonList(Text(t)) }
        r == loadRemoteBodies(m, RemoteHost, missed, rpcOk, answer)
        got == IF DOMAIN missed # {} /\ r.ok THEN DOMAIN r.result ELSE {}
    IN  [result |-> [t \in hits \cup got |->
                        IF t \in hits THEN JsonItems(Text(t)) ELSE r.result[t]],
         mc |-> IF DOMAIN missed # {} THEN r.mc ELSE m,
         rpcs |-> IF DOMAIN missed # {} THEN 1 ELSE 0]

\* NormalizeTimelineID over the ids of a request: the ids that normalize,
\* and the cache with the normalizations stored.
NormalizeAll(m, ts) ==
    LET done == { t \in ts : NormalizeTimelineID(m, t).ok }
        keys == { NormKey(t) : t \in { x \in done :
                                         McHas(NormalizeTimelineID(m, x).mc, NormKey(x)) } }
    IN  [ids |-> { NormalizeTimelineID(m, t).id : t \in done },
         mc |-> [k \in (DOMAIN m) \cup keys |->
                    IF k \in DOMAIN m THEN m[k] ELSE NormalizeTimelineID(m, k.id).id]]

\* The items of the chunks that are not after until.
Messages(chunks, until) ==
    { x \in UNION { SeqRange(chunks[t]) : t \in DOMAIN chunks } : x.cDate <= until }

\* No item is dropped.
KeepAll(messages) == { messages }

\* The first item of each ResourceID, in the order the map of chunks
\* happens to be walked: one item per ResourceID.
UniqSets(messages) ==
    { S \in SUBSET messages :
        /\ \A a, b \in S : a.resourceID = b.resourceID => a = b
        /\ \A x \in messages : \E a \in S : a.resourceID = x.resourceID }

\* The timelines GetRecentItems is asked for.
LocalA == Id("t", "A", "")
LocalB == Id("t", "B", FQDN)
RemoteR == Id("t", "R", RemoteHost)

\* repository.GetChunksFromRemote: LookupChunkItrs at the epoch of the
\* pivot, then LoadChunkBodies on its result.
GetChunksFromRemote(m, host, timelines, pivot, rpcOk, answer) ==
    LET l == LookupChunkItrs(m, timelines, Time2Chunk(pivot), rpcOk)
        b == LoadChunkBodies(l.mc, l.result, rpcOk, answer)
    IN  [result |-> b.result, mc |-> b.mc, itrs |-> l.result, rpcs |-> l.rpcs + b.rpcs]

\* The query GetChunksFromRemote sends to the peer for bodies.
RemoteQuery(m, timelines, pivot, rpcOk) ==
    LET l == LookupChunkItrs(m, timelines, Time2Chunk(pivot), rpcOk)
    IN  IF rpcOk THEN BodiesMissed(l.mc, l.result) ELSE << >>

\* service.GetRecentItems
GetRecentItems(Requests) ==
    \E req \in Requests :
    \E norm \in { NormalizeAll(mc, req.ts) } :
    \E locals \in { { n \in norm.ids : Parts(n) >= 2 /\ LastPart(n) = FQDN } } :
    \E remotes \in { { n \in norm.ids : Parts(n) >= 2 /\ LastPart(n) # FQDN } } :
    \E c \in { GetChunksFromCache(items, norm.mc, norm.ids, Time2Chunk(req.until)) } :
    \E order \in DbOrders(items, locals, Time2Chunk(req.until)) :
    \E d \in { IF locals = {} THEN [result |-> << >>, mc |-> c.mc]
               ELSE GetChunksFromDB(items, c.mc, locals, Time2Chunk(req.until), order) } :
    \E answer \in PeerAnswers(peer, RemoteQuery(d.mc, remotes, req.until, req.rpcOk)) :
    \E r \in { IF remotes = {}
               THEN [result |-> << >>, mc |-> d.mc, itrs |-> << >>, rpcs |-> 0]
               ELSE GetChunksFromRemote(d.mc, RemoteHost, remotes, req.until,
                                        req.rpcOk, answer) } :
    \E chunks \in { [t \in (DOMAIN c.result) \cup (DOMAIN d.result) \cup (DOMAIN r.result) |->
                       IF t \in DOMAIN r.result THEN r.result[t]
                       ELSE IF t \in DOMAIN d.result THEN d.result[t]
                       ELSE c.result[t]] } :
    \E uniq \in UniqSets(Messages(chunks, req.until)) :
    \E sorted \in DescSeqs(uniq) :
    \E read \in { remotes # {} /\ remotes \subseteq DOMAIN r.result } :
        /\ mc' = r.mc
        /\ recent' =
             [called |-> TRUE, ts |-> req.ts, until |-> req.until,
              limit |-> req.limit, normalized |-> norm.ids,
              out |-> Prefix(sorted, req.limit),
              rpcs |-> r.rpcs, read |-> read, rpcOk |-> req.rpcOk,
              wrote |-> { k \in DOMAIN r.mc :
                            /\ k.p \in {tlItrCachePrefix, tlBodyCachePrefix}
                            /\ (k \in DOMAIN mc => r.mc[k] # mc[k]) },
              itr |-> IF read THEN r.itrs[CHOOSE t \in remotes : TRUE] ELSE 0,
              now |-> now, subs |-> subs,
              repeat |-> /\ recent.called
                         /\ recent.read
                         /\ recent.ts = req.ts
                         /\ recent.until = req.until,
              prev |-> IF recent.called
                       THEN [now |-> recent.now, subs |-> recent.subs,
                             itr |-> recent.itr]
                       ELSE None]
        /\ UNCHANGED << items, now, subs, peer, restOfRecent >>

\* repository.CreateItem run to its end, on the items of the requests: two
\* resources of A that share a c_date, one of them also a moment later, and
\* a resource of A that is on B as well.
CreateRequests ==
    { << "A", "m1", 0 >>, << "A", "m2", 0 >>, << "A", "m2", 1 >>,
      << "B", "m1", MaxTime >> }

CreateItemCall ==
    \E c \in CreateRequests :
        LET r == CreateItem(items, mc, Row(Id("t", c[1], ""), c[2], c[3]), TRUE)
        IN  /\ r.err = "nil"
            /\ items' = r.tbl
            /\ mc' = r.mc
            /\ UNCHANGED << recentVars, restOfRecent >>

\* The calls of GetRecentItems on the local timelines.
LocalRequests ==
    [ts : { {LocalA}, {LocalA, LocalB} }, until : {0, MaxTime}, limit : 1..MaxLimit,
     rpcOk : {TRUE}]

InitRecent ==
    /\ items = {}
    /\ mc = << >>
    /\ ChunkIdle
    /\ SvcInit

NextRecent ==
    \/ CreateItemCall
    \/ GetRecentItems(LocalRequests)

SpecRecent == InitRecent /\ [][NextRecent]_vars

\* The tables the peer can hold for its timeline R.
PeerOld == { Row(Id("", "R", ""), "m1", 0) }
PeerBoth == PeerOld \cup { Row(Id("", "R", ""), "m2", MaxTime) }

\* The calls of GetRecentItems on the peer's timeline.
RemoteRequests ==
    [ts : { {RemoteR} }, until : {0, MaxTime}, limit : {MaxLimit}, rpcOk : BOOLEAN]

\* The clock of the server moves on.
Tick ==
    /\ now < MaxTime
    /\ now' = now + 1
    /\ UNCHANGED << items, mc, subs, peer, recent, restOfRecent >>

\* service.Realtime: a client's request subscribes the server to the
\* channel of the normalized id.
RealtimeSubscribe ==
    LET n == NormalizeTimelineID(mc, RemoteR)
    IN  /\ n.ok
        /\ n.id \notin subs
        /\ subs' = subs \cup {n.id}
        /\ mc' = n.mc
        /\ UNCHANGED << items, now, peer, recent, restOfRecent >>

\* service.Realtime: the client is gone and the subscription is dropped.
RealtimeCancel ==
    /\ subs # {}
    /\ subs' = {}
    /\ UNCHANGED << items, mc, now, peer, recent, restOfRecent >>

InitRemote ==
    /\ items = {}
    /\ mc = << >>
    /\ ChunkIdle
    /\ CommitInit
    /\ PostInit
    /\ now = 0
    /\ subs = {}
    /\ peer \in { PeerOld, PeerBoth }
    /\ recent = RecentIdle
    /\ EntityInit
    /\ RaceInit
    /\ PullInit
    /\ RtInit
    /\ AgentInit
    /\ CountInit
    /\ FanInit
    /\ TlInit
    /\ RmInit
    /\ NormInit
    /\ AuthInit
    /\ CdidInit
    /\ SockInit

NextRemote ==
    \/ GetRecentItems(RemoteRequests)
    \/ Tick
    \/ RealtimeSubscribe
    \/ RealtimeCancel

SpecRemote == InitRemote /\ [][NextRemote]_vars

(***************************************************************************)
(* C7: every item GetRecentItems(ts, u, l) returns has CDate <= u and a    *)
(* TimelineID that is one of the normalized forms of the requested ids     *)
(* (t<26>@<fqdn>), whichever path produced it.                             *)
(***************************************************************************)
C7_ItemsInRangeAndNormalized ==
    recent.called =>
        \A n \in 1..Len(recent.out) :
            /\ recent.out[n].cDate <= recent.until
            /\ recent.out[n].timelineID \in recent.normalized

\* A call on A that returned an item.
C7_Witness ==
    /\ recent.called
    /\ recent.ts = {LocalA}
    /\ Len(recent.out) > 0

UniqueResources(out) ==
    \A i, j \in 1..Len(out) : out[i].resourceID = out[j].resourceID => i = j

(***************************************************************************)
(* C8, as stated: the list GetRecentItems returns is strictly sorted by    *)
(* CDate descending, has no two items with the same ResourceID and has at  *)
(* most limit elements, items sharing a CDate included.                    *)
(***************************************************************************)
C8_StrictlySorted ==
    recent.called =>
        /\ \A i, j \in 1..Len(recent.out) :
               i < j => recent.out[i].cDate > recent.out[j].cDate
        /\ UniqueResources(recent.out)
        /\ Len(recent.out) <= recent.limit

(***************************************************************************)
(* C8, amended: the list GetRecentItems returns is sorted by CDate         *)
(* descending with items of equal CDate in either order, has no two items  *)
(* with the same ResourceID and has at most limit elements.                *)
(***************************************************************************)
C8_SortedUniqueLimited ==
    recent.called =>
        /\ \A i, j \in 1..Len(recent.out) :
               i < j => recent.out[i].cDate >= recent.out[j].cDate
        /\ UniqueResources(recent.out)
        /\ Len(recent.out) <= recent.limit

\* A call on A and B, with m1 on both of them, that returned two items of
\* the same CDate.
C8_Witness ==
    /\ recent.called
    /\ recent.ts = {LocalA, LocalB}
    /\ \E a, b \in items :
           a.resourceID = b.resourceID /\ a.timelineID # b.timelineID
    /\ Len(recent.out) = 2
    /\ recent.out[1].cDate = recent.out[2].cDate

\* The peer's timeline of a call, normalized.
RemoteOf(call) == CHOOSE t \in call.normalized : TRUE

\* memcached holds the iterator of the call's epoch and the body it names.
RemoteCached(call) ==
    /\ McHas(mc, McKey(tlItrCachePrefix, RemoteOf(call), Time2Chunk(call.until)))
    /\ McHas(mc, McKey(tlBodyCachePrefix, RemoteOf(call), call.itr))

\* At the time at, with the live subscriptions live: the epoch is not the
\* current one, or the timeline has a live subscription.
Keepable(at, live, epoch, timeline) ==
    epoch # Time2Chunk(at) \/ timeline \in live

MaxCount == 2

\* config.CSID
CSID == "ccs1"
IsCSID(s) == s \in {"ccs1", "ccs9"}
IsCKID(s) == s \in {"cck1", "cck2", "cck3"}

\* key.ResolveSubkey: the root of a stored subkey that is not revoked.
ResolveSubkey(id) ==
    LET ks == { k \in StoredKeys : k.id = id /\ ~k.revoked }
    IN  IF ks = {} THEN [ok |-> FALSE, root |-> ""]
        ELSE [ok |-> TRUE, root |-> (CHOOSE k \in ks : TRUE).root]

\* jwt.Validate on the invitation codes of the requests.
JwtValidate(token) ==
    CASE token = "inv1" -> [ok |-> TRUE, subject |-> "CONCRNT_INVITE", jti |-> "j1",
                            issuer |-> CSID, expOk |-> TRUE]
      [] token = "inv2" -> [ok |-> TRUE, subject |-> "CONCRNT_INVITE", jti |-> "j2",
                            issuer |-> "ccs9", expOk |-> TRUE]
      [] token = "inv3" -> [ok |-> TRUE, subject |-> "CONCRNT_INVITE", jti |-> "j3",
                            issuer |-> "con2", expOk |-> TRUE]
      [] token = "inv4" -> [ok |-> TRUE, subject |-> "CONCRNT_INVITE", jti |-> "j4",
                            issuer |-> "cck2", expOk |-> TRUE]
      [] token = "inv5" -> [ok |-> TRUE, subject |-> "LOGIN", jti |-> "j5",
                            issuer |-> CSID, expOk |-> TRUE]
      [] token = "inv6" -> [ok |-> TRUE, subject |-> "CONCRNT_INVITE", jti |-> "j6",
                            issuer |-> CSID, expOk |-> FALSE]
      [] OTHER -> [ok |-> FALSE, subject |-> "", jti |-> "", issuer |-> "", expOk |-> FALSE]

\* The invitation codes of the requests.
RequestInvitations == {"", "inv1", "inv2", "inv3", "inv6"}

\* core.Entity and core.EntityMeta
Entity(id, domain, tag, score, isScoreFixed, doc, sig) ==
    [id |-> id, domain |-> domain, tag |-> tag, score |-> score,
     isScoreFixed |-> isScoreFixed, doc |-> doc, sig |-> sig]
NoEntity == Entity("", "", "", 0, FALSE, None, "")
EntityMeta(id, info, inviter) == [id |-> id, info |-> info, inviter |-> inviter]

\* db.Save on a table whose primary key is id.
Save(tbl, row) == { x \in tbl : x.id # row.id } \cup {row}

\* repository.Get
RepoGet(tbl, key) == { x \in tbl : x.id = key }

\* repository.UpsertWithMeta
UpsertWithMeta(tbl, mt, count, entity, meta) ==
    [entities |-> Save(tbl, entity), metas |-> Save(mt, meta), count |-> count + 1]

\* repository.Upsert: isNewRecord stays false when the lookup finds the
\* row and when it reports that there is none.
Upsert(tbl, count, entity) ==
    [entities |-> Save(tbl, entity), count |-> count]

\* The entity of a remote affiliation built from the document alone.
RemoteEntityFresh(existence, doc) ==
    Entity(doc.signer, doc.domain, "", 0, FALSE, doc, doc.sig)
\* The entity a remote affiliation saves: newEntity, with Tag, IsScoreFixed
\* and Score of the row that exists.
RemoteEntity(existence, doc) ==
    IF existence # {}
    THEN Entity(doc.signer, doc.domain, (CHOOSE x \in existence : TRUE).tag,
                (CHOOSE x \in existence : TRUE).score,
                (CHOOSE x \in existence : TRUE).isScoreFixed, doc, doc.sig)
    ELSE Entity(doc.signer, doc.domain, "", 0, FALSE, doc, doc.sig)

\* service.Affiliation: its error, the entity it returns and the tables,
\* counter and invalidated JTIs it leaves.
AffiliationResult(tbl, mt, count, used, cfg, doc, option, captcha) ==
    LET Fail(e) == [err |-> e, ret |-> NoEntity, entities |-> tbl, metas |-> mt,
                    count |-> count, jtis |-> used]
        existence == RepoGet(tbl, doc.signer)
        existing == CHOOSE x \in existence : TRUE
        local == Entity(doc.signer, doc.domain, "", 0, FALSE, doc, doc.sig)
        claims == JwtValidate(option.invitation)
        resolved == ResolveSubkey(claims.issuer)
        inviterID == IF IsCKID(claims.issuer) THEN resolved.root ELSE claims.issuer
        open == UpsertWithMeta(tbl, mt, count, local,
                               EntityMeta(doc.signer, option.info, ""))
        invited == UpsertWithMeta(tbl, mt, count, local,
                                  EntityMeta(doc.signer, option.info, claims.issuer))
        newEntity == RemoteEntity(existence, doc)
        created == Upsert(tbl, count, newEntity)
    IN  IF ~doc.parsed THEN Fail("Failed to unmarshal document")
        ELSE IF existence # {} /\ existing.doc.signedAt > doc.signedAt
        THEN [err |-> "nil", ret |-> existing, entities |-> tbl, metas |-> mt,
              count |-> count, jtis |-> used]
        ELSE IF doc.domain # FQDN
        THEN [err |-> "nil", ret |-> newEntity, entities |-> created.entities,
              metas |-> mt, count |-> created.count, jtis |-> used]
        ELSE IF cfg.siteKey # "" /\ ~captcha THEN Fail("Captcha verification failed")
        ELSE IF ~option.parsed THEN Fail("Failed to unmarshal option")
        ELSE IF cfg.registration = "open"
        THEN [err |-> "nil", ret |-> local, entities |-> open.entities,
              metas |-> open.metas, count |-> open.count, jtis |-> used]
        ELSE IF cfg.registration # "invite" THEN Fail("registration is not open")
        ELSE IF option.invitation = "" THEN Fail("invitation code is required")
        ELSE IF ~claims.ok THEN Fail("invalid token")
        ELSE IF claims.subject # "CONCRNT_INVITE" THEN Fail("invalid invitation code")
        ELSE IF claims.jti \in used THEN Fail("token is already used")
        ELSE IF IsCKID(claims.issuer) /\ ~resolved.ok THEN Fail("key not found")
        ELSE IF IsCSID(inviterID) /\ inviterID # CSID
        THEN Fail("inviter is not allowed to invite")
        ELSE IF ~IsCSID(inviterID) /\ RepoGet(tbl, inviterID) = {}
        THEN Fail("not found")
        ELSE IF ~IsCSID(inviterID) /\ cfg.invitePolicy \in {"Never", "Deny"}
        THEN Fail("inviter is not allowed to invite")
        ELSE IF ~claims.expOk
        THEN [err |-> "invalid syntax", ret |-> local, entities |-> invited.entities,
              metas |-> invited.metas, count |-> invited.count, jtis |-> used]
        ELSE [err |-> "nil", ret |-> local, entities |-> invited.entities,
              metas |-> invited.metas, count |-> invited.count,
              jtis |-> used \cup {claims.jti}]

\* The affiliation documents of the requests, and one that does not parse.
AffDoc(signer, domain, signedAt) ==
    [parsed |-> TRUE, signer |-> signer, domain |-> domain, signedAt |-> signedAt,
     sig |-> "sig"]
AffiliationDocuments ==
    { AffDoc("con1", FQDN, 1), AffDoc("con1", FQDN, 2), AffDoc("con1", RemoteHost, 2),
      AffDoc("con2", FQDN, 1),
      [parsed |-> FALSE, signer |-> "", domain |-> "", signedAt |-> 0, sig |-> "sig"] }

\* The options of the requests, and one that does not parse.
AffiliationOptions ==
    [parsed : {TRUE}, info : {"info"}, invitation : RequestInvitations]
    \cup { [parsed |-> FALSE, info |-> "", invitation |-> ""] }

\* The tables, the counter and the invalidated JTIs.
Snapshot(tbl, mt, count, used) ==
    [entities |-> tbl, metas |-> mt, count |-> count, jtis |-> used]

Affiliation ==
    /\ \E doc \in AffiliationDocuments, option \in AffiliationOptions,
          captcha \in BOOLEAN :
       \E r \in { AffiliationResult(entities, metas, entityCount, jtis, config, doc,
                                     option, captcha) } :
          /\ r.count <= MaxCount
          /\ entities' = r.entities
          /\ metas' = r.metas
          /\ entityCount' = r.count
          /\ jtis' = r.jtis
          /\ lastAff' =
               [called |-> TRUE, doc |-> doc, option |-> option, captcha |-> captcha,
                err |-> r.err, ret |-> r.ret,
                before |-> Snapshot(entities, metas, entityCount, jtis),
                after |-> Snapshot(r.entities, r.metas, r.count, r.jtis),
                prev |-> IF /\ lastAff.called
                            /\ lastAff.doc = doc
                            /\ lastAff.option = option
                            /\ lastAff.captcha = captcha
                         THEN [err |-> lastAff.err, ret |-> lastAff.ret,
                               after |-> lastAff.after]
                         ELSE None]
    /\ UNCHANGED << config, restOfEntity >>

\* service.UpdateScore
UpdateScore ==
    /\ \E id \in {"con1"}, score \in {100} :
          entities' = { IF x.id = id THEN [x EXCEPT !.score = score] ELSE x :
                          x \in entities }
    /\ UNCHANGED << metas, entityCount, jtis, config, lastAff, restOfEntity >>

\* The configurations of the server: the registration modes, one of them
\* behind a captcha, and the answers of the global policy to "invite".
Configs ==
    { [registration |-> "open", siteKey |-> "", invitePolicy |-> "Default"],
      [registration |-> "open", siteKey |-> "key", invitePolicy |-> "Default"],
      [registration |-> "close", siteKey |-> "", invitePolicy |-> "Default"],
      [registration |-> "invite", siteKey |-> "", invitePolicy |-> "Allow"],
      [registration |-> "invite", siteKey |-> "", invitePolicy |-> "Deny"] }

InitEntity ==
    /\ items = {}
    /\ mc = << >>
    /\ ChunkIdle
    /\ CommitInit
    /\ PostInit
    /\ RecentInit
    /\ entities = {}
    /\ metas = {}
    /\ entityCount = 0
    /\ jtis = {}
    /\ config \in Configs
    /\ lastAff = AffIdle
    /\ RaceInit
    /\ PullInit
    /\ RtInit
    /\ AgentInit
    /\ CountInit
    /\ FanInit
    /\ TlInit
    /\ RmInit
    /\ NormInit
    /\ AuthInit
    /\ CdidInit
    /\ SockInit

NextEntity ==
    \/ Affiliation
    \/ UpdateScore

SpecEntity == InitEntity /\ [][NextEntity]_vars

\* The entity rows of the call's signer in a snapshot.
RowsOf(snap, call) == { x \in snap.entities : x.id = call.doc.signer }

\* The call before was the same one, it succeeded, and nothing has changed
\* since.
AppliedTwice(call) ==
    /\ call.prev # None
    /\ call.prev.err = "nil"
    /\ call.prev.after = call.before

\* The stored affiliation of the signer is newer than the document's.
OlderThanStored(call) ==
    /\ call.doc.parsed
    /\ \E x \in RowsOf(call.before, call) : x.doc.signedAt > call.doc.signedAt

(***************************************************************************)
(* C10: Affiliation applied twice with the same (Signer, SignedAt) leaves  *)
(* exactly one entity row and returns the same entity both times; applied  *)
(* with a SignedAt older than the stored one it changes nothing (entity    *)
(* row, meta, counter) and returns the stored entity.                      *)
(***************************************************************************)
C10_AffiliationIdempotent ==
    lastAff.called =>
        /\ AppliedTwice(lastAff) =>
               /\ Cardinality(RowsOf(lastAff.after, lastAff)) = 1
               /\ lastAff.err = "nil"
               /\ lastAff.ret = lastAff.prev.ret
        /\ OlderThanStored(lastAff) =>
               /\ lastAff.after = lastAff.before
               /\ lastAff.err = "nil"
               /\ {lastAff.ret} = RowsOf(lastAff.before, lastAff)

(***************************************************************************)
(* SpecAffRace - entity.Service.Affiliation called by concurrent requests, *)
(* one action per I/O boundary: the lookup of the stored entity, the check *)
(* of the JTI, the lookup of the inviter, the upsert and the invalidation  *)
(* of the JTI.                                                             *)
(***************************************************************************)
\* The documents and options of the concurrent requests.
RaceDocuments ==
    { AffDoc("con1", FQDN, 1), AffDoc("con1", FQDN, 2), AffDoc("con2", FQDN, 1),
      AffDoc("con3", RemoteHost, 1), AffDoc("con3", RemoteHost, 2) }
RaceOptions ==
    [parsed : {TRUE}, info : {"info"}, invitation : {"", "inv1", "inv3"}]

\* The request returns.
AffReturn(p, e, ret, upserted) ==
    aff' = [aff EXCEPT ![p].pc = "done", ![p].err = e, ![p].ret = ret,
                       ![p].upserted = upserted]
AffGoto(p, pc) == aff' = [aff EXCEPT ![p].pc = pc]

\* The issuer of the invitation, a subkey resolved to its root.
InviterOf(claims) ==
    IF IsCKID(claims.issuer) THEN ResolveSubkey(claims.issuer).root ELSE claims.issuer

\* The entity a local registration saves.
LocalEntity(doc) == Entity(doc.signer, doc.domain, "", 0, FALSE, doc, doc.sig)

\* Affiliation up to its first write or check: s.repository.Get(doc.Signer)
\* and the tests on what it read and on the request.
AffGet(p) ==
    /\ aff[p].pc = "idle"
    /\ \E doc \in RaceDocuments, option \in RaceOptions :
       \E existence \in { RepoGet(entities, doc.signer) } :
       \E claims \in { JwtValidate(option.invitation) } :
          LET call == [aff[p] EXCEPT !.doc = doc, !.option = option,
                                     !.existence = existence, !.jti = claims.jti]
              Return(e, ret) ==
                  aff' = [aff EXCEPT ![p] = [call EXCEPT !.pc = "done", !.err = e,
                                                         !.ret = ret]]
              Goto(pc) == aff' = [aff EXCEPT ![p] = [call EXCEPT !.pc = pc]]
          IN  IF \E x \in existence : x.doc.signedAt > doc.signedAt
              THEN Return("nil", CHOOSE x \in existence : TRUE)
              ELSE IF doc.domain # FQDN THEN Goto("upsert")
              ELSE IF config.registration = "open" THEN Goto("upsertWithMeta")
              ELSE IF config.registration # "invite"
              THEN Return("registration is not open", NoEntity)
              ELSE IF option.invitation = ""
              THEN Return("invitation code is required", NoEntity)
              ELSE IF ~claims.ok THEN Return("invalid token", NoEntity)
              ELSE IF claims.subject # "CONCRNT_INVITE"
              THEN Return("invalid invitation code", NoEntity)
              ELSE Goto("checkJTI")
    /\ UNCHANGED << entities, metas, entityCount, jtis, config, restOfRace >>

\* s.jwtService.CheckJTI and the tests on the issuer.
AffCheckJTI(p) ==
    /\ aff[p].pc = "checkJTI"
    /\ LET claims == JwtValidate(aff[p].option.invitation)
           inviterID == InviterOf(claims)
       IN  IF claims.jti \in jtis THEN AffReturn(p, "token is already used", NoEntity, FALSE)
           ELSE IF IsCKID(claims.issuer) /\ ~ResolveSubkey(claims.issuer).ok
           THEN AffReturn(p, "key not found", NoEntity, FALSE)
           ELSE IF IsCSID(inviterID)
           THEN IF inviterID # CSID
                THEN AffReturn(p, "inviter is not allowed to invite", NoEntity, FALSE)
                ELSE AffGoto(p, "upsertWithMeta")
           ELSE AffGoto(p, "inviter")
    /\ UNCHANGED << entities, metas, entityCount, jtis, config, restOfRace >>

\* s.repository.Get(inviterID) and the global policy's answer to "invite".
AffInviter(p) ==
    /\ aff[p].pc = "inviter"
    /\ LET inviterID == InviterOf(JwtValidate(aff[p].option.invitation))
       IN  IF RepoGet(entities, inviterID) = {}
           THEN AffReturn(p, "not found", NoEntity, FALSE)
           ELSE IF config.invitePolicy \in {"Never", "Deny"}
           THEN AffReturn(p, "inviter is not allowed to invite", NoEntity, FALSE)
           ELSE AffGoto(p, "upsertWithMeta")
    /\ UNCHANGED << entities, metas, entityCount, jtis, config, restOfRace >>

\* s.repository.UpsertWithMeta, and the parse of the token's expiry.
AffUpsertWithMeta(p) ==
    /\ aff[p].pc = "upsertWithMeta"
    /\ LET doc == aff[p].doc
           claims == JwtValidate(aff[p].option.invitation)
           inviter == IF config.registration = "invite" THEN claims.issuer ELSE ""
       IN  \E r \in { UpsertWithMeta(entities, metas, entityCount, LocalEntity(doc),
                                     EntityMeta(doc.signer, aff[p].option.info, inviter)) } :
              /\ entities' = r.entities
              /\ metas' = r.metas
              /\ entityCount' = r.count
              /\ IF config.registration = "open"
                 THEN AffReturn(p, "nil", LocalEntity(doc), TRUE)
                 ELSE IF ~claims.expOk
                 THEN AffReturn(p, "invalid syntax", LocalEntity(doc), TRUE)
                 ELSE aff' = [aff EXCEPT ![p].pc = "invalidate", ![p].upserted = TRUE]
    /\ UNCHANGED << jtis, config, restOfRace >>

\* s.jwtService.InvalidateJTI
AffInvalidate(p) ==
    /\ aff[p].pc = "invalidate"
    /\ jtis' = jtis \cup {aff[p].jti}
    /\ AffReturn(p, "nil", LocalEntity(aff[p].doc), TRUE)
    /\ UNCHANGED << entities, metas, entityCount, config, restOfRace >>

\* s.repository.Upsert of an entity of another domain: the tag and the
\* score are those of the entity read at the start.
AffUpsert(p) ==
    /\ aff[p].pc = "upsert"
    /\ LET doc == aff[p].doc
           existing == CHOOSE x \in aff[p].existence : TRUE
           newEntity == IF aff[p].existence # {}
                        THEN Entity(doc.signer, doc.domain, existing.tag, existing.score,
                                    existing.isScoreFixed, doc, doc.sig)
                        ELSE Entity(doc.signer, doc.domain, "", 0, FALSE, doc, doc.sig)
       IN  \E r \in { Upsert(entities, entityCount, newEntity) } :
              /\ entities' = r.entities
              /\ entityCount' = r.count
              /\ AffReturn(p, "nil", newEntity, TRUE)
    /\ UNCHANGED << metas, jtis, config, restOfRace >>

InitAffRace ==
    /\ items = {}
    /\ mc = << >>
    /\ ChunkIdle
    /\ CommitInit
    /\ PostInit
    /\ RecentInit
    /\ entities = {}
    /\ metas = {}
    /\ entityCount = 0
    /\ jtis = {}
    /\ config \in { c \in Configs : c.siteKey = "" /\ c.invitePolicy # "Deny" }
    /\ lastAff = AffIdle
    /\ RaceInit
    /\ PullInit
    /\ RtInit
    /\ AgentInit
    /\ CountInit
    /\ FanInit
    /\ TlInit
    /\ RmInit
    /\ NormInit
    /\ AuthInit
    /\ CdidInit
    /\ SockInit

NextAffRace ==
    \/ \E p \in AffProcs : AffGet(p)
    \/ \E p \in AffProcs : AffCheckJTI(p)
    \/ \E p \in AffProcs : AffInviter(p)
    \/ \E p \in AffProcs : AffUpsertWithMeta(p)
    \/ \E p \in AffProcs : AffInvalidate(p)
    \/ \E p \in AffProcs : AffUpsert(p)

SpecAffRace == InitAffRace /\ [][NextAffRace]_vars

(***************************************************************************)
(* C11: for one signer the SignedAt of the stored affiliation document     *)
(* never decreases, in every interleaving of concurrent Affiliation calls. *)
(***************************************************************************)
C11_NewerWins ==
    [][ \A x \in entities : \A y \in entities' :
            x.id = y.id => y.doc.signedAt >= x.doc.signedAt ]_vars

(***************************************************************************)
(* C12: in invite mode, for one JTI at most one Affiliation call upserts   *)
(* an entity and returns success, and no upserted registration leaves its  *)
(* JTI usable once the call has returned.                                  *)
(***************************************************************************)
C12_InvitationSingleUse ==
    config.registration = "invite" =>
        /\ \A p, q \in AffProcs :
               ( /\ aff[p].pc = "done" /\ aff[p].upserted /\ aff[p].err = "nil"
                 /\ aff[q].pc = "done" /\ aff[q].upserted /\ aff[q].err = "nil"
                 /\ aff[p].jti = aff[q].jti /\ aff[p].doc.domain = FQDN
                 /\ aff[q].doc.domain = FQDN )
               => p = q
        /\ \A p \in AffProcs :
               (aff[p].pc = "done" /\ aff[p].upserted /\ aff[p].doc.domain = FQDN)
               => aff[p].jti \in jtis

(***************************************************************************)
(* SpecPull - entity.Service.PullEntityFromRemote next to affiliation      *)
(* documents committed through store.Commit.  A signature is modelled by   *)
(* the key that made it.                                                   *)
(***************************************************************************)
\* core.VerifySignature(message, signature, address)
VerifySignature(doc, sig, address) == sig = address

\* The entities a peer can answer GetEntity with: any document, signed by
\* any key the peer's users hold.
PulledDoc(signer, domain, signedAt, sig) ==
    [parsed |-> TRUE, signer |-> signer, domain |-> domain, signedAt |-> signedAt,
     sig |-> sig]
PeerEntities ==
    { PulledDoc(signer, domain, signedAt, sig) :
        signer \in {"con1", "con3"}, domain \in {FQDN, RemoteHost},
        signedAt \in {2, MaxTime}, sig \in {"con1", "con3"} }

\* The option PullEntityFromRemote applies Affiliation with: "".
EmptyOption == [parsed |-> FALSE, info |-> "", invitation |-> ""]

\* service.PullEntityFromRemote
PullEntityFromRemote ==
    /\ \E id \in {"con1", "con3"}, fetched \in BOOLEAN, hexOk \in BOOLEAN,
          entity \in PeerEntities :
       \E r \in { IF ~fetched THEN [err |-> "request failed", entities |-> entities,
                                    count |-> entityCount]
                  ELSE IF ~hexOk THEN [err |-> "invalid byte", entities |-> entities,
                                       count |-> entityCount]
                  ELSE IF ~VerifySignature(entity, entity.sig, id)
                  THEN [err |-> "signature mismatch", entities |-> entities,
                        count |-> entityCount]
                  ELSE AffiliationResult(entities, metas, entityCount, jtis, config,
                                         entity, EmptyOption, FALSE) } :
          /\ entities' = r.entities
          /\ entityCount' = r.count
          /\ lastPull' = [called |-> TRUE, id |-> id, err |-> r.err,
                          before |-> entities, after |-> r.entities]
    /\ UNCHANGED << metas, jtis, config, restOfPull >>

\* store.Commit of an affiliation document: key.ValidateDocument, then
\* Affiliation.
CommitAffiliation ==
    /\ \E signer \in {"con1", "con2"}, sig \in {"con1", "con2"}, signedAt \in {1, 2} :
       \E doc \in { PulledDoc(signer, FQDN, signedAt, sig) } :
       \E option \in { [parsed |-> TRUE, info |-> "info", invitation |-> ""] } :
          /\ ValidateDocument([keyID |-> "", signer |-> signer, signedAt |-> signedAt],
                              sig, {})
          /\ \E r \in { AffiliationResult(entities, metas, entityCount, jtis, config,
                                           doc, option, FALSE) } :
                /\ r.count <= MaxCount
                /\ entities' = r.entities
                /\ metas' = r.metas
                /\ entityCount' = r.count
    /\ UNCHANGED << jtis, config, lastPull, restOfPull >>

InitPull ==
    /\ items = {}
    /\ mc = << >>
    /\ ChunkIdle
    /\ SvcInit

NextPull ==
    \/ PullEntityFromRemote
    \/ CommitAffiliation

SpecPull == InitPull /\ [][NextPull]_vars

(***************************************************************************)
(* C13: every entity row persisted through Affiliation has ID equal to the *)
(* signer of its stored affiliation document - the signer field and the    *)
(* key the signature verifies under - and Domain equal to the document's   *)
(* domain; PullEntityFromRemote(id, remote) creates or modifies no entity  *)
(* other than id.                                                          *)
(***************************************************************************)
C13_EntityIsItsSigner ==
    /\ \A x \in entities :
           /\ x.id = x.doc.signer
           /\ VerifySignature(x.doc, x.sig, x.id)
           /\ x.domain = x.doc.domain
    /\ lastPull.called =>
           \A x \in (lastPull.after \ lastPull.before) \cup (lastPull.before \ lastPull.after) :
               x.id = lastPull.id

(***************************************************************************)
(* service.Realtime and repository.Subscribe: one Realtime goroutine for   *)
(* each client, the Subscribe goroutines it starts, and the pub/sub        *)
(* channels between the writers and the Subscribe goroutines.              *)
(***************************************************************************)
MaxReq == 2
MaxPub == 2
\* The capacity of the Go channel a pub/sub subscription delivers into; a
\* message that finds it full is dropped.
PubSubChanSize == 1

\* One channel shared by every Realtime call.
EventsChanShared(c) == "a"
\* The channel events of a Realtime call: each call makes its own.
EventsChan(c) == c

\* The timeline lists the clients send.
TimelineLists ==
    { {Id("t", "A", "")}, {Id("t", "B", FQDN)},
      {Id("t", "A", ""), Id("t", "A", FQDN)} }
\* The pub/sub channels the writers publish on.
PubChannels == {Id("t", "A", FQDN), Id("t", "B", FQDN)}

\* A Subscribe goroutine just started: it returns at once for no channels.
NewSubscribe(channels) ==
    [channels |-> channels, cancelled |-> FALSE,
     pc |-> IF channels = {} THEN "returned" ELSE "recv",
     item |-> None, psch |-> << >>]

\* cancel(): the context of the last Subscribe goroutine is cancelled.
CancelLast(gs) ==
    IF gs = << >> THEN gs ELSE [gs EXCEPT ![Len(gs)].cancelled = TRUE]

\* ctx.Done() of a Subscribe goroutine: its own cancel, or the parent's.
SubCtxDone(c, g) == subscribers[c][g].cancelled \/ client[c].done

\* The maps the loop over timelines can leave: each normalized id is mapped
\* to a timeline of the list that normalizes to it (the last one wins).
Mappers(m, ts, ids) ==
    { f \in [ids -> ts] :
        \A n \in ids : NormalizeTimelineID(m, f[n]).ok
                       /\ NormalizeTimelineID(m, f[n]).id = n }

\* mapper[event.Timeline]: the zero value for a missing key.
MapperGet(mapper, key) == IF key \in DOMAIN mapper THEN mapper[key] ELSE NoId

\* case timelines := <-request
RtRequest(c, ts) ==
    /\ rt[c].pc = "select"
    /\ client[c].reqs < MaxReq
    /\ \E norm \in { NormalizeAll(mc, ts) } :
       \E mapper \in Mappers(mc, ts, norm.ids) :
        /\ mc' = norm.mc
        /\ rt' = [rt EXCEPT ![c].mapperSet = TRUE, ![c].mapper = mapper,
                            ![c].list = ts]
        /\ subscribers' = [subscribers EXCEPT
               ![c] = Append(CancelLast(subscribers[c]), NewSubscribe(norm.ids))]
    /\ client' = [client EXCEPT ![c].reqs = @ + 1]
    /\ UNCHANGED << lastResp, socketCounter, pub, restOfRt >>

\* Subscribe: case <-ctx.Done(), return nil and the deferred pubsub.Close().
SubDone(c, g) ==
    /\ subscribers[c][g].pc = "recv"
    /\ SubCtxDone(c, g)
    /\ subscribers' = [subscribers EXCEPT ![c][g].pc = "returned",
                                          ![c][g].psch = << >>]
    /\ UNCHANGED << mc, rt, client, lastResp, socketCounter, pub, restOfRt >>

\* Subscribe: case msg := <-psch.
SubReceive(c, g) ==
    /\ subscribers[c][g].pc = "recv"
    /\ subscribers[c][g].psch # << >>
    /\ subscribers' = [subscribers EXCEPT
           ![c][g].pc = "send",
           ![c][g].item = Head(subscribers[c][g].psch),
           ![c][g].psch = Tail(subscribers[c][g].psch)]
    /\ UNCHANGED << mc, rt, client, lastResp, socketCounter, pub, restOfRt >>

\* Subscribe's event <- item meets Realtime's case event := <-events: the
\* send waits for nothing but a receiver, the receiver rewrites the
\* Timeline field through the mapper it holds now.
SubSend(c, g) ==
    /\ subscribers[c][g].pc = "send"
    /\ \E r \in { EventsChan(c) } :
        /\ rt[r].pc = "select"
        /\ rt' = IF ~rt[r].mapperSet THEN rt
                 ELSE [rt EXCEPT ![r].pc = "send",
                                 ![r].event =
                                     [timeline |-> MapperGet(rt[r].mapper,
                                                     subscribers[c][g].item.timeline),
                                      channel |-> subscribers[c][g].item.timeline]]
    /\ subscribers' = [subscribers EXCEPT ![c][g].pc = "recv", ![c][g].item = None]
    /\ UNCHANGED << mc, client, lastResp, socketCounter, pub, restOfRt >>

\* Realtime: response <- event, which waits for the client to read.
RtSend(c) ==
    /\ rt[c].pc = "send"
    /\ client[c].reading
    /\ lastResp' = [lastResp EXCEPT ![c] =
                       [n |-> @.n + 1, timeline |-> rt[c].event.timeline,
                        channel |-> rt[c].event.channel, list |-> rt[c].list]]
    /\ rt' = [rt EXCEPT ![c].pc = "select", ![c].event = None]
    /\ UNCHANGED << mc, subscribers, client, socketCounter, pub, restOfRt >>

\* Realtime: case <-ctx.Done(), cancel, return and the deferred decrement.
RtDone(c) ==
    /\ rt[c].pc = "select"
    /\ client[c].done
    /\ rt' = [rt EXCEPT ![c].pc = "returned"]
    /\ subscribers' = [subscribers EXCEPT ![c] = CancelLast(@)]
    /\ socketCounter' = socketCounter - 1
    /\ UNCHANGED << mc, client, lastResp, pub, restOfRt >>

\* The context of the connection is cancelled.
CtxCancel(c) ==
    /\ ~client[c].done
    /\ client' = [client EXCEPT ![c].done = TRUE]
    /\ UNCHANGED << mc, rt, subscribers, lastResp, socketCounter, pub, restOfRt >>

\* The client stops reading its response channel.
ClientStop(c) ==
    /\ client[c].reading
    /\ client' = [client EXCEPT ![c].reading = FALSE]
    /\ UNCHANGED << mc, rt, subscribers, lastResp, socketCounter, pub, restOfRt >>

\* The Subscribe goroutine has the channel subscribed and its pubsub open.
Listening(c, g, channel) ==
    /\ subscribers[c][g].pc # "returned"
    /\ channel \in subscribers[c][g].channels

\* The subscription's Go channel takes the message unless it is full.
Deliver(psch, event) ==
    IF Len(psch) < PubSubChanSize THEN Append(psch, event) ELSE psch

\* repository.PublishEvent: rdb.Publish hands the event to the pub/sub
\* server and returns nil; every open subscription of the channel gets it.
RepoPublishEvent(channel) ==
    /\ pub.count < MaxPub
    /\ subscribers' = [c \in Clients |->
           [g \in DOMAIN subscribers[c] |->
               IF Listening(c, g, channel)
               THEN [subscribers[c][g] EXCEPT
                        !.psch = Deliver(@, [timeline |-> channel])]
               ELSE subscribers[c][g]]]
    /\ pub' = [count |-> pub.count + 1,
               queued |-> [c \in Clients |->
                   IF \E g \in DOMAIN subscribers[c] :
                          /\ Listening(c, g, channel)
                          /\ ~SubCtxDone(c, g)
                          /\ Len(subscribers[c][g].psch) < PubSubChanSize
                   THEN pub.queued[c] + 1 ELSE pub.queued[c]]]
    /\ UNCHANGED << mc, rt, client, lastResp, socketCounter, restOfRt >>

InitRealtime ==
    /\ items = {}
    /\ mc = << >>
    /\ ChunkIdle
    /\ SvcInit

\* The steps of the goroutines of one connection.
RtGoroutines(c) ==
    \/ \E g \in DOMAIN subscribers[c] : SubDone(c, g)
    \/ \E g \in DOMAIN subscribers[c] : SubReceive(c, g)
    \/ \E g \in DOMAIN subscribers[c] : SubSend(c, g)
    \/ RtSend(c)
    \/ RtDone(c)

NextRealtime ==
    \/ \E ts \in TimelineLists : RtRequest("a", ts)
    \/ \E g \in DOMAIN subscribers["a"] : SubDone("a", g)
    \/ \E g \in DOMAIN subscribers["a"] : SubReceive("a", g)
    \/ \E g \in DOMAIN subscribers["a"] : SubSend("a", g)
    \/ RtSend("a")
    \/ RtDone("a")
    \/ CtxCancel("a")
    \/ ClientStop("a")
    \/ \E channel \in PubChannels : RepoPublishEvent(channel)

\* The Go scheduler runs every goroutine that can take a step.
RtFair(c) ==
    /\ \A g \in 1..MaxReq : WF_vars(g \in DOMAIN subscribers[c] /\ SubDone(c, g))
    /\ \A g \in 1..MaxReq : WF_vars(g \in DOMAIN subscribers[c] /\ SubReceive(c, g))
    /\ \A g \in 1..MaxReq : WF_vars(g \in DOMAIN subscribers[c] /\ SubSend(c, g))
    /\ WF_vars(RtSend(c))
    /\ WF_vars(RtDone(c))

SpecRealtime == InitRealtime /\ [][NextRealtime]_vars /\ RtFair("a")

\* C14: every event pushed to the response channel carries an id of the
\* most recent timeline list of the client, the one whose normalized form
\* is the channel the event was published on; never an empty id.
C14_EventTimelineIsRequested ==
    \A c \in Clients :
        lastResp[c].n > 0 =>
            /\ lastResp[c].timeline # NoId
            /\ lastResp[c].timeline \in lastResp[c].list
            /\ NormalizeTimelineID(<< >>, lastResp[c].timeline).id = lastResp[c].channel

\* C15: once its context is cancelled Realtime eventually returns and the
\* connection counter is decremented, also while it is delivering an event
\* to a client that no longer reads response.
C15_RealtimeReturnsOnCancel ==
    client["a"].done ~> (rt["a"].pc = "returned" /\ socketCounter < Cardinality(Clients))

\* C16: every Subscribe goroutine whose context has been cancelled
\* eventually returns and closes its pub/sub subscription, also when it
\* holds an event it has not handed over to Realtime.
C16_CancelledSubscribeReturns ==
    \A g \in 1..MaxReq :
        (g \in DOMAIN subscribers["a"] /\ SubCtxDone("a", g))
            ~> (g \in DOMAIN subscribers["a"] /\ subscribers["a"][g].pc = "returned")

(***************************************************************************)
(* Two connections, one timeline list each: client a may stop reading and  *)
(* may be cancelled at any moment, client b keeps reading.                 *)
(***************************************************************************)
NextBackpressure ==
    \/ \E ts \in TimelineLists : client["a"].reqs = 0 /\ RtRequest("a", ts)
    \/ client["b"].reqs = 0 /\ RtRequest("b", {Id("t", "B", FQDN)})
    \/ \E c \in Clients : RtGoroutines(c)
    \/ CtxCancel("a")
    \/ ClientStop("a")
    \/ \E channel \in PubChannels : RepoPublishEvent(channel)

SpecBackpressure ==
    InitRealtime /\ [][NextBackpressure]_vars /\ RtFair("a") /\ RtFair("b")

\* C17: whatever client a does, a writer can always complete PublishEvent,
\* and every event queued for the subscription of client b is eventually
\* pushed to the response channel of client b.
C17_BackpressureIsLocal ==
    /\ [](pub.count < MaxPub =>
              \A channel \in PubChannels : ENABLED RepoPublishEvent(channel))
    /\ \A n \in 1..MaxPub : (pub.queued["b"] >= n) ~> (lastResp["b"].n >= n)

\* Client a is stuck with one event at the send on response and another at
\* the send on events, and client b has received every event published.
C17_Witness ==
    /\ ~client["a"].reading
    /\ rt["a"].pc = "send"
    /\ \E g \in DOMAIN subscribers["a"] : subscribers["a"][g].pc = "send"
    /\ lastResp["b"].n = MaxPub

(***************************************************************************)
(* agent.updateConnections: the websockets to the peers whose channels     *)
(* are subscribed on this server.                                          *)
(***************************************************************************)
OtherHost == "other.ex"

\* The channel names that can be subscribed: normalized timeline ids of
\* this server and of two peers, and a channel without "@".
ChannelNames ==
    { Id("t", "A", FQDN), Id("t", "B", RemoteHost), Id("t", "C", RemoteHost),
      Id("", "home", "con3@remote.ex"), Id("t", "D", OtherHost),
      Id("", "concrnt:subscription:updated", "") }

\* summarize: the names of exactly two parts, grouped by the second part.
summarize(input) ==
    LET valid == { item \in input : Parts(item) = 2 }
    IN  [fqdn \in { item.host : item \in valid } |->
            { item \in valid : item.host = fqdn }]

\* A channel is subscribed or unsubscribed on the pub/sub server.
ChannelSubscribe(ch) ==
    /\ ch \notin pubsubChannels
    /\ pubsubChannels' = pubsubChannels \cup {ch}
    /\ UNCHANGED << connections, sent, lastRun, restOfAgent >>

ChannelUnsubscribe(ch) ==
    /\ ch \in pubsubChannels
    /\ pubsubChannels' = pubsubChannels \ {ch}
    /\ UNCHANGED << connections, sent, lastRun, restOfAgent >>

\* updateConnections, with the peers whose dial and whose write succeed.
updateConnections(dialOk, writeOk) ==
    \E summarized \in { summarize(pubsubChannels) } :
    \E serverList \in { (DOMAIN summarized) \ {FQDN} } :
    \E dialed \in { { server \in serverList :
                         server \in connections \/ server \in dialOk } } :
        /\ connections' = dialed \cap writeOk
        /\ sent' = [server \in dialed \cap writeOk |-> summarized[server]]
        /\ lastRun' = [called |-> TRUE,
                       ok |-> /\ serverList \ connections \subseteq dialOk
                              /\ serverList \subseteq writeOk,
                       channels |-> pubsubChannels]
        /\ UNCHANGED << pubsubChannels, restOfAgent >>

Peers == {RemoteHost, OtherHost}

InitAgent ==
    /\ items = {}
    /\ mc = << >>
    /\ ChunkIdle
    /\ SvcInit

NextAgent ==
    \/ \E ch \in ChannelNames : ChannelSubscribe(ch)
    \/ \E ch \in ChannelNames : ChannelUnsubscribe(ch)
    \/ \E dialOk \in SUBSET Peers : \E writeOk \in SUBSET Peers :
           updateConnections(dialOk, writeOk)

SpecAgent == InitAgent /\ [][NextAgent]_vars

\* The domain after the last "@" of a channel name.
SuffixDomain(ch) == LastPart(ch)

\* C18: after an updateConnections run in which every dial and write
\* succeeds the connected peers are the suffix domains, other than this
\* server, of the subscribed channels, and each peer was sent exactly the
\* subscribed channels of its domain.
C18_ConnectionsFollowSubscriptions ==
    (lastRun.called /\ lastRun.ok /\ pubsubChannels = lastRun.channels) =>
        /\ connections =
               { SuffixDomain(ch) : ch \in { x \in lastRun.channels : Parts(x) >= 2 } }
                   \ {FQDN}
        /\ \A server \in connections :
               sent[server] = { ch \in lastRun.channels :
                                  Parts(ch) >= 2 /\ SuffixDomain(ch) = server }

(***************************************************************************)
(* The memcached counters entity_count and timeline_count and the tables   *)
(* they count.                                                             *)
(***************************************************************************)
MaxCounter == 3

\* mc.Increment and mc.Decrement: a missing key is left missing, and a
\* counter at zero is not decremented.
Increment(key, value, delta) == IF key \in absent THEN value ELSE value + delta
Decrement(key, value, delta) ==
    IF key \in absent THEN value
    ELSE IF value < delta THEN 0 ELSE value - delta

\* The registrations and the rows of remote entities the calls carry.
CountDocuments ==
    { AffDoc("con1", FQDN, 1), AffDoc("con1", FQDN, 2), AffDoc("con2", FQDN, 1),
      AffDoc("con3", RemoteHost, 1) }
CountOption == [parsed |-> TRUE, info |-> "info", invitation |-> ""]
CountRows ==
    { Entity("con9", RemoteHost, "", 0, FALSE, AffDoc("con9", RemoteHost, 1), "sig") }
CountTimelines == {"A", "B"}

\* service.Affiliation, with the increments made on the memcached key.
AffiliationCounted ==
    /\ \E doc \in CountDocuments :
       \E r \in { AffiliationResult(entities, metas, entityCount, jtis, config, doc,
                                     CountOption, FALSE) } :
          /\ r.count <= MaxCounter
          /\ entities' = r.entities
          /\ metas' = r.metas
          /\ entityCount' = Increment("entity_count", entityCount, r.count - entityCount)
    /\ UNCHANGED << tlRows, timelineCount, absent, lastCount, restOfCount >>

\* service.Upsert: repository.Upsert.
UpsertEntity ==
    /\ \E row \in CountRows :
       \E r \in { Upsert(entities, entityCount, row) } :
          /\ entities' = r.entities
          /\ entityCount' = Increment("entity_count", entityCount, r.count - entityCount)
    /\ UNCHANGED << metas, tlRows, timelineCount, absent, lastCount, restOfCount >>

\* service.Delete: repository.Delete, whose db.Delete reports no error for
\* a row that is not there.
DeleteEntity ==
    /\ \E id \in {"con1", "con3"} :
          entities' = { x \in entities : x.id # id }
    /\ entityCount' = Decrement("entity_count", entityCount, 1)
    /\ UNCHANGED << metas, tlRows, timelineCount, absent, lastCount, restOfCount >>

\* repository.UpsertTimeline
UpsertTimeline ==
    /\ timelineCount < MaxCounter
    /\ \E id \in CountTimelines : tlRows' = tlRows \cup {id}
    /\ timelineCount' = Increment("timeline_count", timelineCount, 1)
    /\ UNCHANGED << entities, metas, entityCount, absent, lastCount, restOfCount >>

\* repository.DeleteTimeline
DeleteTimeline ==
    /\ \E id \in CountTimelines : tlRows' = tlRows \ {id}
    /\ timelineCount' = Decrement("timeline_count", timelineCount, 1)
    /\ UNCHANGED << entities, metas, entityCount, absent, lastCount, restOfCount >>

\* Entity repository Count: on a cache miss setCurrentCount stores COUNT(*)
\* and the call returns 0 with the error.
CountEntity ==
    /\ entityCount' = IF "entity_count" \in absent THEN Cardinality(entities)
                      ELSE entityCount
    /\ absent' = absent \ {"entity_count"}
    /\ lastCount' = [called |-> TRUE, key |-> "entity_count",
                     missed |-> "entity_count" \in absent,
                     present |-> TRUE, value |-> entityCount',
                     rows |-> Cardinality(entities)]
    /\ UNCHANGED << entities, metas, tlRows, timelineCount, restOfCount >>

\* Timeline repository Count: on a cache miss the call returns 0 with the
\* error.
CountTimeline ==
    /\ lastCount' = [called |-> TRUE, key |-> "timeline_count",
                     missed |-> "timeline_count" \in absent,
                     present |-> "timeline_count" \notin absent,
                     value |-> timelineCount, rows |-> Cardinality(tlRows)]
    /\ UNCHANGED << entities, metas, entityCount, tlRows, timelineCount, absent,
                    restOfCount >>

\* memcached loses a counter key: eviction, flush or restart.
CounterLost ==
    /\ \E key \in {"entity_count", "timeline_count"} \ absent :
          /\ absent' = absent \cup {key}
          /\ entityCount' = IF key = "entity_count" THEN 0 ELSE entityCount
          /\ timelineCount' = IF key = "timeline_count" THEN 0 ELSE timelineCount
    /\ UNCHANGED << entities, metas, tlRows, lastCount, restOfCount >>

InitCount ==
    /\ items = {}
    /\ mc = << >>
    /\ ChunkIdle
    /\ SvcInit

NextCount ==
    \/ AffiliationCounted
    \/ UpsertEntity
    \/ DeleteEntity
    \/ UpsertTimeline
    \/ DeleteTimeline
    \/ CountEntity
    \/ CountTimeline
    \/ CounterLost

SpecCount == InitCount /\ [][NextCount]_vars

\* C19: a counter key that memcached holds equals the number of rows of
\* its table, after any sequence of entity and timeline operations.
C19_CountersEqualRows ==
    /\ "entity_count" \notin absent => entityCount = Cardinality(entities)
    /\ "timeline_count" \notin absent => timelineCount = Cardinality(tlRows)

\* C20: after a Count call that found its counter key absent the key is
\* present and holds the number of rows, for entities and for timelines.
C20_CountRestoresCounter ==
    (lastCount.called /\ lastCount.missed) =>
        /\ lastCount.present
        /\ lastCount.value = lastCount.rows

(***************************************************************************)
(* LookupChunkItrs, LoadChunkBodies and GetRecentItems over the local      *)
(* domain and two peers, while memcached or a peer is failing.             *)
(***************************************************************************)
\* The timeline_items table of the second peer.
OtherRows == { Row(Id("", "Z", ""), "m2", 1) }
PeerTable(domain) == IF domain = RemoteHost THEN peer ELSE OtherRows

\* What fails during a call: mc.GetMulti, mc.Set, the RPCs to some peers.
NoFaults == [mcGet |-> FALSE, mcSet |-> FALSE, down |-> {}]
FanFaults ==
    { NoFaults,
      [mcGet |-> TRUE, mcSet |-> FALSE, down |-> {}],
      [mcGet |-> FALSE, mcSet |-> TRUE, down |-> {}],
      [mcGet |-> FALSE, mcSet |-> FALSE, down |-> {RemoteHost}],
      [mcGet |-> FALSE, mcSet |-> FALSE, down |-> {OtherHost}] }

\* The first failing domain ends the loop over the domains.
ServedUntilFailure(domains, down) == IF domains \cap down = {} THEN domains ELSE {}
\* The loop over domainMap: a domain whose call fails is skipped with
\* continue, the others are served.
Served(domains, down) == domains \ down

\* The timelines of a domain among the missed ones.
OfDomain(timelines, domain) ==
    { t \in timelines : Parts(t) >= 2 /\ LastPart(t) = domain }
DomainsOf(timelines) == { LastPart(t) : t \in { x \in timelines : Parts(x) >= 2 } }

\* lookupLocalItrs on this server, or what the peer answers to GetChunkItrs.
DomainItrs(tbl, domain, timelines, epoch) ==
    PeerItrs(IF domain = FQDN THEN tbl ELSE PeerTable(domain),
             OfDomain(timelines, domain), epoch)

\* repository.LookupChunkItrs
FanLookupChunkItrs(tbl, m, normalized, epoch, f) ==
    LET Key(t) == McKey(tlItrCachePrefix, t, epoch)
        hits == { t \in normalized : McHas(m, Key(t)) }
        missed == normalized \ hits
        served == Served(DomainsOf(missed), f.down)
        got == UNION { DOMAIN DomainItrs(tbl, d, missed, epoch) : d \in served }
        kept == { t \in got : ~f.mcSet /\ (LastPart(t) = FQDN \/ RemoteKeep(epoch, t)) }
        keys == { Key(t) : t \in kept }
    IN  IF f.mcGet
        THEN [err |-> "mc", result |-> << >>, mc |-> m, failed |-> {}]
        ELSE [err |-> "nil",
              result |-> [t \in hits \cup got |->
                             IF t \in hits THEN m[Key(t)]
                             ELSE DomainItrs(tbl, LastPart(t), missed, epoch)[t]],
              mc |-> [k \in (DOMAIN m) \cup keys |->
                         IF k \in keys
                         THEN DomainItrs(tbl, LastPart(k.id), missed, epoch)[k.id]
                         ELSE m[k]],
              failed |-> (DomainsOf(missed) \ {FQDN}) \cap f.down]

\* loadLocalBody on the table of a domain: the newest defaultChunkSize rows
\* up to the chunk's end, or every row of the chunk when they all lie in it.
DomainBody(tbl, domain, timeline, epoch) ==
    LET p == IF domain = FQDN THEN tbl ELSE PeerTable(domain)
        dbid == LocalDbId(timeline)
        s == CHOOSE x \in DescSeqs(RowsUntil(p, dbid, Chunk2RecentTime(epoch))) : TRUE
        got == Prefix(s, defaultChunkSize)
        all == CHOOSE x \in DescSeqs(RowsBetween(p, dbid,
                                Chunk2RecentTime(PrevChunk(epoch)),
                                Chunk2RecentTime(epoch))) : TRUE
    IN  IF Len(got) > 0 /\ got[Len(got)].cDate > Chunk2RecentTime(PrevChunk(epoch))
        THEN WithHostOf(all, domain)
        ELSE WithHostOf(got, domain)

\* repository.LoadChunkBodies
FanLoadChunkBodies(tbl, m, query, f) ==
    LET Key(t) == McKey(tlBodyCachePrefix, t, query[t])
        missed == DOMAIN BodiesMissed(m, query)
        hits == { t \in (DOMAIN query) \ missed : IsJsonList(DropFirstTok(m[Key(t)])) }
        served == Served(DomainsOf(missed), f.down)
        Has(t) == RowsUntil(IF LastPart(t) = FQDN THEN tbl ELSE PeerTable(LastPart(t)),
                            LocalDbId(t), Chunk2RecentTime(query[t])) # {}
        got == { t \in missed :
                   /\ Parts(t) >= 2
                   /\ LastPart(t) \in served
                   /\ Has(t)
                   /\ LastPart(t) = FQDN => ~f.mcSet }
        kept == { t \in got : ~f.mcSet /\ (LastPart(t) = FQDN \/ RemoteKeep(query[t], t)) }
        keys == { Key(t) : t \in kept }
    IN  IF f.mcGet
        THEN [err |-> "mc", result |-> << >>, mc |-> m, failed |-> {}]
        ELSE [err |-> "nil",
              result |-> [t \in hits \cup got |->
                             IF t \in hits THEN JsonItems(DropFirstTok(m[Key(t)]))
                             ELSE DomainBody(tbl, LastPart(t), t, query[t])],
              mc |-> [k \in (DOMAIN m) \cup keys |->
                         IF k \in keys
                         THEN EncodeBody(DomainBody(tbl, LastPart(k.id), k.id, query[k.id]))
                         ELSE m[k]],
              failed |-> (DomainsOf(missed) \ {FQDN}) \cap f.down]

\* repository.GetChunksFromRemote for one peer: LookupChunkItrs at the epoch
\* of the pivot, then LoadChunkBodies on its result.
FanGetChunksFromRemote(tbl, m, timelines, pivot, f) ==
    CHOOSE r \in UNION {
        { [result |-> b.result, mc |-> b.mc, failed |-> l.failed \cup b.failed] :
            b \in { FanLoadChunkBodies(tbl, l.mc, l.result, f) } } :
        l \in { FanLookupChunkItrs(tbl, m, timelines, Time2Chunk(pivot), f) } } : TRUE

\* service.GetRecentItems, the merge of the chunks: those of the cache, of
\* the database for the local timelines, of one peer after the other.
FanMerge(c, d, r1, r2) ==
    [t \in (DOMAIN c) \cup (DOMAIN d) \cup (DOMAIN r1) \cup (DOMAIN r2) |->
        IF t \in DOMAIN r2 THEN r2[t]
        ELSE IF t \in DOMAIN r1 THEN r1[t]
        ELSE IF t \in DOMAIN d THEN d[t]
        ELSE c[t]]

\* repository.GetChunksFromDB, when there is a local timeline to read.
FanGetChunksFromDB(tbl, m, locals, chunk, order) ==
    IF locals = {} THEN [result |-> << >>, mc |-> m]
    ELSE GetChunksFromDB(tbl, m, locals, chunk, order)

\* The entries of a result that are not of the given domains.
NotOf(result, domains) ==
    [t \in { x \in DOMAIN result : Parts(x) < 2 \/ LastPart(x) \notin domains } |->
        result[t]]

\* The normalized timelines of the reads.
FanTimelines ==
    { Id("t", "A", FQDN), Id("t", "R", RemoteHost), Id("t", "B", RemoteHost),
      Id("t", "Z", OtherHost) }
FanRequests ==
    { FanTimelines, {Id("t", "A", FQDN), Id("t", "R", RemoteHost)} }

\* The rows the writers of the three domains store before the reads begin;
\* the rows of a timeline have distinct dates.
FanRows ==
    { << FQDN, "A", "m1", 0 >>, << FQDN, "A", "m2", MaxTime >>,
      << RemoteHost, "R", "m1", MaxTime >>, << RemoteHost, "B", "m2", 0 >> }

FanCreate ==
    /\ ~fan.called
    /\ \E w \in FanRows :
         IF w[1] = FQDN
         THEN /\ items' = items \cup { Row(Id("", w[2], ""), w[3], w[4]) }
              /\ peer' = peer
         ELSE /\ peer' = peer \cup { Row(Id("", w[2], ""), w[3], w[4]) }
              /\ items' = items
    /\ UNCHANGED << mc, fan, restOfFan >>

\* The reads come in pairs: one on the cold cache, one on the cache the
\* first has left.
\* A LookupChunkItrs call, and the same call on an empty cache with
\* nothing failing.
FanLookup ==
    /\ ~fan.warmed
    /\ \E ts \in FanRequests, epoch \in Epochs, f \in FanFaults :
       \E r \in { FanLookupChunkItrs(items, mc, ts, epoch, f) } :
       \E ref \in { FanLookupChunkItrs(items, IF f.mcGet THEN << >> ELSE mc,
                                       ts, epoch, NoFaults) } :
          /\ mc' = r.mc
          /\ fan' = [called |-> TRUE, warmed |-> fan.called, op |-> "lookup",
                     err |-> r.err, faults |-> f,
                     failed |-> r.failed, result |-> r.result, ref |-> ref.result]
    /\ UNCHANGED << items, peer, restOfFan >>

\* A LoadChunkBodies call on the iterators a lookup gives.
FanLoad ==
    /\ ~fan.warmed
    /\ \E ts \in FanRequests, epoch \in Epochs, f \in FanFaults :
       \E query \in { FanLookupChunkItrs(items, mc, ts, epoch, NoFaults).result } :
       \E r \in { FanLoadChunkBodies(items, mc, query, f) } :
       \E ref \in { FanLoadChunkBodies(items, IF f.mcGet THEN << >> ELSE mc,
                                       query, NoFaults) } :
          /\ mc' = r.mc
          /\ fan' = [called |-> TRUE, warmed |-> fan.called, op |-> "load",
                     err |-> r.err, faults |-> f,
                     failed |-> r.failed, result |-> r.result, ref |-> ref.result]
    /\ UNCHANGED << items, peer, restOfFan >>

\* A GetRecentItems call while a peer may be down, and the same call with
\* every peer up.
FanRecent ==
    /\ ~fan.warmed
    /\ \E ts \in FanRequests, until \in {0, MaxTime},
          f \in { x \in FanFaults : ~x.mcGet /\ ~x.mcSet } :
       \E order \in DbOrders(items, OfDomain(ts, FQDN), Time2Chunk(until)) :
       \E c \in { GetChunksFromCache(items, mc, ts, Time2Chunk(until)) } :
       \E d \in { FanGetChunksFromDB(items, c.mc, OfDomain(ts, FQDN),
                                      Time2Chunk(until), order) } :
       \E r1 \in { FanGetChunksFromRemote(items, d.mc, OfDomain(ts, RemoteHost),
                                           until, f) } :
       \E r2 \in { FanGetChunksFromRemote(items, r1.mc, OfDomain(ts, OtherHost),
                                           until, f) } :
       \E u1 \in { FanGetChunksFromRemote(items, d.mc, OfDomain(ts, RemoteHost),
                                           until, NoFaults) } :
       \E u2 \in { FanGetChunksFromRemote(items, u1.mc, OfDomain(ts, OtherHost),
                                           until, NoFaults) } :
          /\ mc' = r2.mc
          /\ fan' = [called |-> TRUE, warmed |-> fan.called, op |-> "recent",
                     err |-> "nil", faults |-> f,
                     failed |-> r1.failed \cup r2.failed,
                     result |-> FanMerge(c.result, d.result, r1.result, r2.result),
                     ref |-> FanMerge(c.result, d.result, u1.result, u2.result)]
    /\ UNCHANGED << items, peer, restOfFan >>

InitFan ==
    /\ items = {}
    /\ mc = << >>
    /\ ChunkIdle
    /\ SvcInit

NextFan ==
    \/ FanCreate
    \/ FanLookup
    \/ FanLoad
    \/ FanRecent

SpecFan == InitFan /\ [][NextFan]_vars

\* C21: a LookupChunkItrs or LoadChunkBodies call during which memcached
\* fails returns no error and the data a call on an empty cache returns.
C21_CacheFailureIsAMiss ==
    (fan.called /\ fan.op \in {"lookup", "load"}
                /\ (fan.faults.mcGet \/ fan.faults.mcSet)) =>
        /\ fan.err = "nil"
        /\ fan.result = fan.ref

\* C22: a call during which the RPC to a peer fails returns no error and
\* holds, for every other domain, the entries the call holds when no peer
\* fails.
C22_PeerFailureIsSkipped ==
    (fan.called /\ fan.failed # {}) =>
        /\ fan.err = "nil"
        /\ NotOf(fan.result, fan.failed) = NotOf(fan.ref, fan.failed)

\* A call with a failed RPC that returned entries of two other domains.
C22_Witness ==
    /\ fan.called
    /\ fan.failed = {RemoteHost}
    /\ \E a, b \in DOMAIN fan.result :
          LastPart(a) = FQDN /\ LastPart(b) = OtherHost

(***************************************************************************)
(* service.UpsertTimeline on the timelines table: creation from the        *)
(* document's hash, update of an existing timeline of this domain.         *)
(***************************************************************************)
TimelinePolicyActions == {"timeline.create", "timeline.update"}

\* doc.ID == ""
EmptyId == Id("", "", "")

\* semanticid.Lookup on the semantic id table
SemanticLookupIn(sems, name, owner) ==
    IF << name, owner >> \in DOMAIN sems
    THEN [ok |-> TRUE, target |-> sems[<< name, owner >>]]
    ELSE [ok |-> FALSE, target |-> EmptyId]

\* semanticid.Delete
SemanticDelete(sems, name, owner) ==
    [k \in (DOMAIN sems) \ {<< name, owner >>} |-> sems[k]]

\* semanticid.Name
SemanticName(sems, name, owner, target) ==
    [k \in (DOMAIN sems) \cup {<< name, owner >>} |->
        IF k = << name, owner >> THEN target ELSE sems[k]]

\* repository.GetTimeline on the timelines table
RepoGetTimelineIn(tls, id) ==
    LET n == normalizeLocalDBID(id)
    IN  IF n.ok /\ n.id.body \in DOMAIN tls
        THEN [ok |-> TRUE, tl |-> tls[n.id.body]]
        ELSE [ok |-> FALSE, tl |-> None]

\* The flag of the update document is the one of the document.
DocDomainOwned(existance, doc) == doc.domainOwned
\* doc.DomainOwned = existance.DomainOwned
ExistingDomainOwned(existance, doc) == existance.domainOwned

\* repository.UpsertTimeline: db.Save of the row under its 26 characters.
SaveTimeline(tls, id, row) ==
    [b \in (DOMAIN tls) \cup {id.body} |-> IF b = id.body THEN row ELSE tls[b]]

\* service.UpsertTimeline: its error, the path it took, the id it worked
\* on, the policy result, and the tables and cache it leaves.
UpsertTimelineResult(tls, sems, m, doc, evalOk) ==
    LET look == SemanticLookupIn(sems, doc.semanticID, doc.signer)
        named == doc.semanticID # "" /\ look.ok
        real == named /\ RepoGetTimelineIn(tls, look.target).ok
        sems1 == IF named /\ ~real
                 THEN SemanticDelete(sems, doc.semanticID, doc.signer) ELSE sems
        id1 == IF real /\ doc.id = EmptyId THEN look.target ELSE doc.id
        signer == EntityGet(doc.signer)
        create == id1 = EmptyId
        newId == Id("", doc.hash, "")
        n == NormalizeTimelineID(m, id1)
        id2 == SplitHead(n.id)
        existance == RepoGetTimelineIn(tls, id2)
        policyResult ==
            IF create
            THEN TestWithPolicyURL("", signer, None, "timeline.create", evalOk)
            ELSE TestWithPolicyURL(existance.tl.policy, signer, existance.tl,
                                   "timeline.update", evalOk)
        result == Summerize(<< policyResult >>,
                            IF create THEN "timeline.create" ELSE "timeline.update")
        id == IF create THEN newId ELSE id2
        row == [id |-> id.body, author |-> doc.signer,
                domainOwned |-> IF create THEN doc.domainOwned
                                ELSE ExistingDomainOwned(existance.tl, doc),
                policy |-> doc.policy]
        saved == SaveTimeline(tls, id, row)
        op == IF create THEN "create" ELSE "update"
        Fail(e, o, i, res, ss, c) ==
            [err |-> e, op |-> o, id |-> i, result |-> res, saved |-> FALSE,
             tbl |-> tls, semantics |-> ss, mc |-> c]
    IN  IF real /\ doc.id # EmptyId /\ doc.id # look.target
        THEN Fail("SemanticID Mismatch", "none", "", "", sems, m)
        ELSE IF ~signer.ok THEN Fail("entity not found", "none", "", "", sems1, m)
        ELSE IF create /\ RepoGetTimelineIn(tls, newId).ok
        THEN Fail("Timeline already exists", op, newId.body, "", sems1, m)
        ELSE IF create /\ ~evalOk THEN Fail("policy", op, newId.body, "", sems1, m)
        ELSE IF ~create /\ ~n.ok THEN Fail("normalize", op, "", "", sems1, n.mc)
        ELSE IF ~create /\ LastPart(n.id) # FQDN
        THEN Fail("not owned by this domain", op, "", "", sems1, n.mc)
        ELSE IF ~create /\ ~existance.ok
        THEN Fail("not found", op, "", "", sems1, n.mc)
        ELSE IF ~result
        THEN Fail("no access", op, id.body, policyResult, sems1,
                  IF create THEN m ELSE n.mc)
        ELSE [err |-> "nil", op |-> op, id |-> id.body, result |-> policyResult,
              saved |-> TRUE, tbl |-> saved,
              semantics |-> IF doc.semanticID # ""
                            THEN SemanticName(sems1, doc.semanticID, doc.signer,
                                              PrependT(id))
                            ELSE sems1,
              mc |-> IF create THEN m ELSE n.mc]

\* The timeline documents without an id: what they hash to, and what they
\* carry.  Two of them name the same semantic id.
CreateDocuments ==
    { [id |-> EmptyId, hash |-> "A", signer |-> "con1", domainOwned |-> FALSE,
       semanticID |-> "home", policy |-> "author"],
      [id |-> EmptyId, hash |-> "B", signer |-> "con2", domainOwned |-> TRUE,
       semanticID |-> "", policy |-> "author"],
      [id |-> EmptyId, hash |-> "Z", signer |-> "con1", domainOwned |-> TRUE,
       semanticID |-> "home", policy |-> ""] }

\* The timeline documents that carry an id.
UpdateDocuments ==
    { [id |-> i, hash |-> "R", signer |-> sg, domainOwned |-> d,
       semanticID |-> "", policy |-> p] :
        i \in { Id("t", "A", ""), Id("t", "A", "con1"), Id("t", "B", FQDN),
                Id("t", "Z", ""), Id("t", "R", RemoteHost) },
        sg \in { "con1", "con3", "con9" }, d \in BOOLEAN, p \in { "author", "" } }
    \cup
    { [id |-> Id("t", "B", ""), hash |-> "R", signer |-> "con1",
       domainOwned |-> FALSE, semanticID |-> "home", policy |-> "author"] }

\* A service.UpsertTimeline call; the policy evaluation may end in an error.
ServiceUpsertTimeline ==
    /\ timelineCount < MaxCounter
    /\ \E doc \in CreateDocuments \cup UpdateDocuments, evalOk \in BOOLEAN :
       \E r \in { UpsertTimelineResult(tlTable, semantics, mc, doc, evalOk) } :
          /\ tlTable' = r.tbl
          /\ semantics' = r.semantics
          /\ mc' = r.mc
          /\ tlRows' = DOMAIN r.tbl
          /\ timelineCount' = IF r.saved
                              THEN Increment("timeline_count", timelineCount, 1)
                              ELSE timelineCount
          /\ createdAs' = IF r.saved /\ r.op = "create"
                          THEN [b \in (DOMAIN createdAs) \cup {r.id} |->
                                   IF b = r.id THEN doc.domainOwned ELSE createdAs[b]]
                          ELSE createdAs
          /\ lastUpsert' = [op |-> r.op, err |-> r.err, id |-> r.id,
                            domainOwned |-> doc.domainOwned, evalOk |-> evalOk,
                            result |-> r.result, saved |-> r.saved]
    /\ UNCHANGED << policyDefaults, restOfTl >>

InitTimeline ==
    /\ items = {}
    /\ mc = << >>
    /\ ChunkIdle
    /\ CommitInit
    /\ \E c \in BOOLEAN, u \in BOOLEAN :
          policyDefaults = [a \in PolicyActions \cup TimelinePolicyActions |->
                               IF a = "timeline.create" THEN c ELSE u]
    /\ events = {}
    /\ lastCall = CallIdle
    /\ RecentInit
    /\ EntityInit
    /\ RaceInit
    /\ PullInit
    /\ RtInit
    /\ AgentInit
    /\ CountInit
    /\ FanInit
    /\ TlInit
    /\ RmInit
    /\ NormInit
    /\ AuthInit
    /\ CdidInit
    /\ SockInit

NextTimeline ==
    \/ ServiceUpsertTimeline

SpecTimeline == InitTimeline /\ [][NextTimeline]_vars

\* C23: every timeline of the table carries the DomainOwned flag it was
\* created with, whatever UpsertTimeline calls have been made since.
C23_DomainOwnedIsImmutable ==
    \A b \in DOMAIN tlTable :
        b \in DOMAIN createdAs /\ tlTable[b].domainOwned = createdAs[b]

\* An update has been saved whose document carries the other flag.
C23_Witness ==
    /\ lastUpsert.op = "update"
    /\ lastUpsert.saved
    /\ lastUpsert.domainOwned # createdAs[lastUpsert.id]


(***************************************************************************)
(* PostItem, Retract and the update path of UpsertTimeline when the        *)
(* evaluation of the timeline's policy ends in an error.                   *)
(***************************************************************************)
\* The timelines table and the semantic ids behind TimelineRow and
\* SemanticLookup.
StoredTimelines == [b \in LocalTimelines |-> TimelineRow(b)]
StoredSemantics == [k \in {<< "home", "con1" >>} |-> Id("t", "A", "")]

\* Updates signed by the timeline's author that keep its policy.
AuthorUpdates ==
    { [id |-> i, hash |-> "R", signer |-> TimelineRow(i.body).author,
       domainOwned |-> d, semanticID |-> "", policy |-> TimelineRow(i.body).policy] :
        i \in { Id("t", "A", ""), Id("t", "B", FQDN) }, d \in BOOLEAN }

\* The first service.UpsertTimeline call, with one of these documents.
UpdateTimeline ==
    /\ lastUpsert.op = "none"
    /\ \E doc \in AuthorUpdates, evalOk \in BOOLEAN :
       \E r \in { UpsertTimelineResult(tlTable, semantics, mc, doc, evalOk) } :
          /\ tlTable' = r.tbl
          /\ semantics' = r.semantics
          /\ mc' = r.mc
          /\ tlRows' = DOMAIN r.tbl
          /\ timelineCount' = IF r.saved
                              THEN Increment("timeline_count", timelineCount, 1)
                              ELSE timelineCount
          /\ lastUpsert' = [op |-> r.op, err |-> r.err, id |-> r.id,
                            domainOwned |-> doc.domainOwned, evalOk |-> evalOk,
                            result |-> r.result, saved |-> r.saved]
    /\ UNCHANGED << createdAs, policyDefaults, restOfTl >>

\* The timelines A and B hold some items; memcached has lost the key
\* timeline_count.
InitPolicyError ==
    /\ items \in RetractTables
    /\ mc = << >>
    /\ ChunkIdle
    /\ CommitInit
    /\ \E d \in BOOLEAN, u \in BOOLEAN :
          policyDefaults = [a \in PolicyActions \cup TimelinePolicyActions |->
                               IF a \in PolicyActions THEN d ELSE u]
    /\ events = {}
    /\ lastCall = CallIdle
    /\ RecentInit
    /\ EntityInit
    /\ RaceInit
    /\ PullInit
    /\ RtInit
    /\ AgentInit
    /\ tlRows = LocalTimelines
    /\ timelineCount = 0
    /\ absent = {"timeline_count"}
    /\ lastCount = CountIdle
    /\ FanInit
    /\ tlTable = StoredTimelines
    /\ semantics = StoredSemantics
    /\ createdAs = [b \in LocalTimelines |-> TimelineRow(b).domainOwned]
    /\ lastUpsert = UpsertIdle
    /\ RmInit
    /\ NormInit
    /\ AuthInit
    /\ CdidInit
    /\ SockInit

\* The first call of the item handlers.
FirstPostItem == lastCall.op = "none" /\ PostItem
FirstRetract == lastCall.op = "none" /\ Retract

NextPolicyError ==
    \/ FirstPostItem
    \/ FirstRetract
    \/ UpdateTimeline

SpecPolicyError == InitPolicyError /\ [][NextPolicyError]_vars

\* C24: a PostItem, Retract or UpsertTimeline update whose policy
\* evaluation ended in an error writes exactly when the global default of
\* its action allows.
C24_EvalErrorYieldsDefault ==
    /\ (lastCall.op = "PostItem" /\ ~lastCall.fetchOk /\ lastCall.result # "") =>
           (lastCall.created <=> policyDefaults["timeline.distribute"])
    /\ (lastCall.op = "Retract" /\ ~lastCall.fetchOk /\ lastCall.result # "") =>
           ((lastCall.err = "nil") <=> policyDefaults["timeline.retract"])
    /\ (lastUpsert.op = "update" /\ ~lastUpsert.evalOk /\ lastUpsert.result # "") =>
           (lastUpsert.saved <=> policyDefaults["timeline.update"])

\* A post and an update whose evaluations ended in an error, the first
\* refused and the second saved.
C24_Witness ==
    /\ lastCall.op = "PostItem"
    /\ ~lastCall.fetchOk
    /\ lastCall.result # ""
    /\ ~lastCall.created
    /\ lastUpsert.op = "update"
    /\ ~lastUpsert.evalOk
    /\ lastUpsert.saved


(***************************************************************************)
(* RemoveItemsByResourceID and the timeline reads that follow it.          *)
(***************************************************************************)
\* The items are stored before the first removal.
RemoveCreate == removed = {} /\ FanCreate

\* service.RemoveItemsByResourceID: repository.DeleteItemByResourceID
\* deletes the rows of that resource_id.  No read has been made since.
RemoveItemsByResourceID ==
    /\ \E resourceID \in Resources :
          /\ items' = { x \in items : x.resourceID # resourceID }
          /\ removed' = removed \cup {resourceID}
    /\ fan' = [fan EXCEPT !.op = "none", !.err = "nil", !.faults = None,
                          !.failed = {}, !.result = << >>, !.ref = << >>]
    /\ UNCHANGED << mc, peer, restOfRm >>

InitRemove ==
    /\ items = {}
    /\ mc = << >>
    /\ ChunkIdle
    /\ SvcInit

NextRemove ==
    \/ RemoveCreate
    \/ FanLookup
    \/ FanLoad
    \/ FanRecent
    \/ RemoveItemsByResourceID

SpecRemove == InitRemove /\ [][NextRemove]_vars

\* The resource ids of the items a read returned for the timelines of
\* this domain.
ReturnedResources(result) ==
    UNION { { result[t][n].resourceID : n \in 1..Len(result[t]) } :
            t \in { x \in DOMAIN result : Parts(x) >= 2 /\ LastPart(x) = FQDN } }

\* C25: a LoadChunkBodies or GetRecentItems call made after the last
\* removal returns, for the timelines of this domain, no item of a removed
\* resource.
C25_RemovedItemsAreGone ==
    (fan.op \in {"load", "recent"} /\ fan.err = "nil") =>
        ReturnedResources(fan.result) \cap removed = {}

(***************************************************************************)
(* store.Commit on the documents its switch has no case for.               *)
(***************************************************************************)
\* The cases of the switch on base.Type, and of the switch on
\* doc.Target[0].
RecognisedTypes ==
    { "message", "association", "profile", "affiliation", "tombstone",
      "timeline", "ack", "unack", "subscription", "subscribe", "unsubscribe",
      "delete" }
TypedPrefixes == { "m", "a", "p", "t" }

\* C26: a Commit of a validated document of an unrecognised type, or of a
\* delete document whose target begins with none of the typed prefixes,
\* returns an error value and invokes no service operation.
C26_UnknownDocumentIsRefused ==
    (/\ commit.parsed
     /\ commit.valid
     /\ \/ commit.type \notin RecognisedTypes
        \/ commit.type = "delete" /\ commit.target \notin TypedPrefixes) =>
        /\ commit.op = "none"
        /\ commit.err \notin { "nil", "panic" }


(***************************************************************************)
(* Affiliation of a remote domain on an entity that carries a tag and a    *)
(* score.                                                                  *)
(***************************************************************************)
\* service.UpdateTag
UpdateTag ==
    /\ \E id \in {"con1"}, tag \in {"_block"} :
          entities' = { IF x.id = id THEN [x EXCEPT !.tag = tag] ELSE x :
                          x \in entities }
    /\ UNCHANGED << metas, entityCount, jtis, config, lastAff, restOfEntity >>

\* service.Upsert by the administrator: the score of an entity is fixed.
FixScore ==
    /\ \E x \in entities :
          entities' = Upsert(entities, entityCount,
                             [x EXCEPT !.isScoreFixed = TRUE]).entities
    /\ UNCHANGED << metas, entityCount, jtis, config, lastAff, restOfEntity >>

\* The affiliation documents of the requests.
FrameDocuments ==
    { AffDoc("con1", FQDN, 1), AffDoc("con1", RemoteHost, 2), AffDoc("con1", FQDN, 4),
      AffDoc("con1", OtherHost, 3), AffDoc("con2", RemoteHost, 1) }

\* service.Affiliation with one of the documents.
AffiliationOf(Docs) ==
    /\ \E doc \in Docs :
       \E r \in { AffiliationResult(entities, metas, entityCount, jtis, config, doc,
                                     CountOption, FALSE) } :
          /\ r.count <= MaxCount
          /\ entities' = r.entities
          /\ metas' = r.metas
          /\ entityCount' = r.count
          /\ jtis' = r.jtis
          /\ lastAff' =
               [called |-> TRUE, doc |-> doc, option |-> CountOption,
                captcha |-> FALSE, err |-> r.err, ret |-> r.ret,
                before |-> Snapshot(entities, metas, entityCount, jtis),
                after |-> Snapshot(r.entities, r.metas, r.count, r.jtis),
                prev |-> None]
    /\ UNCHANGED << config, restOfEntity >>

FrameAffiliation == entityCount <= MaxCount /\ AffiliationOf(FrameDocuments)

InitFrame ==
    /\ items = {}
    /\ mc = << >>
    /\ ChunkIdle
    /\ SvcInit

NextFrame ==
    \/ FrameAffiliation
    \/ UpdateScore
    \/ UpdateTag
    \/ FixScore

SpecFrame == InitFrame /\ [][NextFrame]_vars

\* The last call applied an affiliation of another domain to an entity
\* that existed.
RemoteApplied ==
    /\ lastAff.called
    /\ lastAff.doc.parsed
    /\ lastAff.doc.domain # FQDN
    /\ lastAff.err = "nil"
    /\ RowsOf(lastAff.before, lastAff) # {}
    /\ ~OlderThanStored(lastAff)

\* C27: a remote affiliation applied to an existing entity leaves one row
\* for the signer, with the Tag, Score and IsScoreFixed the row had and the
\* Domain, AffiliationDocument and AffiliationSignature of the document.
C27_RemoteAffiliationKeepsScore ==
    RemoteApplied =>
        \A old \in RowsOf(lastAff.before, lastAff) :
            RowsOf(lastAff.after, lastAff) =
                { Entity(lastAff.doc.signer, lastAff.doc.domain, old.tag, old.score,
                         old.isScoreFixed, lastAff.doc, lastAff.doc.sig) }

\* An entity of this domain with a tag and a fixed score of 100 has moved
\* to the peer.
C27_Witness ==
    /\ RemoteApplied
    /\ \E old \in RowsOf(lastAff.before, lastAff) :
          /\ old.domain = FQDN
          /\ old.tag = "_block"
          /\ old.score = 100
          /\ old.isScoreFixed
    /\ \E new \in RowsOf(lastAff.after, lastAff) : new.domain = RemoteHost


(***************************************************************************)
(* service.NormalizeTimelineID over the entities table and the semantic    *)
(* ids, with its memoization in memcached.                                 *)
(***************************************************************************)
\* entity.Get on the entities table
EntityGetIn(tbl, ccid) ==
    IF RepoGet(tbl, ccid) = {} THEN [ok |-> FALSE, ccid |-> "", domain |-> ""]
    ELSE [ok |-> TRUE, ccid |-> ccid,
          domain |-> (CHOOSE x \in RepoGet(tbl, ccid) : TRUE).domain]

\* service.NormalizeTimelineID: the normalized id and the cache it leaves.
NormalizeTimelineIDIn(m, timeline, tbl, sems) ==
    LET id == SplitHead(timeline)
        last == LastPart(timeline)
        ent == EntityGetIn(tbl, last)
        userid == IF IsCCID(last) THEN last
                  ELSE IF Parts(timeline) = 3 THEN HostSplit(timeline.host)[1]
                  ELSE ""
        domain == IF IsCCID(last) THEN ent.domain ELSE last
        target == SemanticLookupIn(sems, id.body, userid)
        normalized ==
            IF domain = FQDN
            THEN IF IsSeemsCDID(id) THEN AppendHost(id, domain)
                 ELSE AppendHost(target.target, domain)
            ELSE IF IsSeemsCDID(id) THEN AppendHost(id, domain)
                 ELSE AppendHost(id, JoinHost(userid, domain))
    IN  IF McHas(m, NormKey(timeline))
        THEN [ok |-> TRUE, id |-> m[NormKey(timeline)], mc |-> m]
        ELSE IF Parts(timeline) = 1
        THEN [ok |-> TRUE, id |-> AppendHost(timeline, FQDN), mc |-> m]
        ELSE IF IsCCID(last) /\ ~ent.ok THEN [ok |-> FALSE, id |-> timeline, mc |-> m]
        ELSE IF domain = FQDN /\ ~IsSeemsCDID(id) /\ ~target.ok
        THEN [ok |-> FALSE, id |-> timeline, mc |-> m]
        ELSE [ok |-> TRUE, id |-> normalized,
              mc |-> McSet(m, NormKey(timeline), normalized)]

\* The ids NormalizeTimelineID is asked about.
NormTimelines ==
    { Id("t", "A", ""), Id("t", "A", FQDN), Id("t", "A", RemoteHost),
      Id("t", "A", "con1"), Id("", "home", "con1"),
      Id("t", "R", "con3"), Id("", "home", "con3"), Id("t", "A", "con9") }

\* A NormalizeTimelineID call.
Normalize ==
    /\ \E timeline \in NormTimelines :
       \E r \in { NormalizeTimelineIDIn(mc, timeline, entities, semantics) } :
          /\ mc' = r.mc
          /\ lastNorm' = [called |-> TRUE, timeline |-> timeline, ok |-> r.ok,
                          id |-> r.id, hit |-> McHas(mc, NormKey(timeline)),
                          entities |-> entities, semantics |-> semantics]
    /\ UNCHANGED << entityVars, restOfNorm >>

\* A memoized answer reaches normaalizationCacheTTL and is dropped.
NormExpire ==
    /\ \E k \in DOMAIN mc :
          mc' = [x \in (DOMAIN mc) \ {k} |-> mc[x]]
    /\ UNCHANGED << entityVars, lastNorm, restOfNorm >>

\* The affiliations of the requests: con1 moves to the peer and back, con3
\* is an entity of the peer.
NormDocuments ==
    { AffDoc("con1", RemoteHost, 2), AffDoc("con1", FQDN, 3),
      AffDoc("con3", RemoteHost, 1) }
NormAffiliation == entityCount <= MaxCount /\ AffiliationOf(NormDocuments)

\* con1 is registered on this domain and has created the timeline A under
\* the semantic id home.
InitNormalize ==
    /\ items = {}
    /\ mc = << >>
    /\ ChunkIdle
    /\ CommitInit
    /\ PostInit
    /\ RecentInit
    /\ entities = { Entity("con1", FQDN, "", 0, FALSE, AffDoc("con1", FQDN, 1), "sig") }
    /\ metas = { EntityMeta("con1", "info", "") }
    /\ entityCount = 1
    /\ jtis = {}
    /\ config = [registration |-> "open", siteKey |-> "", invitePolicy |-> "Default"]
    /\ lastAff = AffIdle
    /\ RaceInit
    /\ PullInit
    /\ RtInit
    /\ AgentInit
    /\ tlRows = {"A"}
    /\ timelineCount = 1
    /\ absent = {}
    /\ lastCount = CountIdle
    /\ FanInit
    /\ tlTable = [b \in {"A"} |-> TimelineRow(b)]
    /\ semantics = StoredSemantics
    /\ createdAs = [b \in {"A"} |-> TimelineRow(b).domainOwned]
    /\ lastUpsert = UpsertIdle
    /\ RmInit
    /\ NormInit
    /\ AuthInit
    /\ CdidInit
    /\ SockInit

NextNormalize ==
    \/ Normalize
    \/ NormExpire
    \/ NormAffiliation

SpecNormalize == InitNormalize /\ [][NextNormalize]_vars

\* The canonicalization table: the id an id stands for, given the domain
\* stored for each entity and what each semantic id resolves to.
CanonicalId(timeline, tbl, sems) ==
    LET head == SplitHead(timeline)
        owner == timeline.host
        stored == CHOOSE x \in RepoGet(tbl, owner) : TRUE
    IN  CASE Parts(timeline) = 1 /\ IsSeemsCDID(timeline) -> AppendHost(timeline, FQDN)
          [] Parts(timeline) = 2 /\ IsSeemsCDID(head) /\ ~IsCCID(owner) -> timeline
          [] Parts(timeline) = 2 /\ IsSeemsCDID(head) /\ IsCCID(owner)
                /\ RepoGet(tbl, owner) # {} -> AppendHost(head, stored.domain)
          [] Parts(timeline) = 2 /\ ~IsSeemsCDID(head) /\ IsCCID(owner)
                /\ RepoGet(tbl, owner) # {} /\ stored.domain = FQDN
                /\ << head.body, owner >> \in DOMAIN sems ->
                    AppendHost(sems[<< head.body, owner >>], FQDN)
          [] Parts(timeline) = 2 /\ ~IsSeemsCDID(head) /\ IsCCID(owner)
                /\ RepoGet(tbl, owner) # {} /\ stored.domain # FQDN ->
                    AppendHost(head, JoinHost(owner, stored.domain))
          [] OTHER -> None

\* C28: the id a NormalizeTimelineID call returns is the one the
\* canonicalization table gives for the entities and semantic ids stored
\* at the time of the call, from the cache or not.
C28_NormalizeFollowsTable ==
    (/\ lastNorm.called
     /\ lastNorm.ok
     /\ CanonicalId(lastNorm.timeline, lastNorm.entities, lastNorm.semantics) # None) =>
        lastNorm.id =
            CanonicalId(lastNorm.timeline, lastNorm.entities, lastNorm.semantics)



(***************************************************************************)
(* The identity middleware: IdentifyIdentity on a request that carries an  *)
(* Authorization token and, optionally, a passport of a peer domain.       *)
(***************************************************************************)
\* jwt.Claims of the Authorization header and whether jwt.Validate accepts
\* the token.
Jwts ==
    [issuer : Signers, ok : BOOLEAN, audience : {FQDN}]
    \cup { [issuer |-> "con1", ok |-> TRUE, audience |-> RemoteHost] }

\* domain.GetByFQDN: the CCID of a peer domain.
DomainCCID(fqdn) ==
    CASE fqdn = RemoteHost -> "con1remote"
      [] fqdn = OtherHost -> "con1other"
      [] OTHER -> ""

\* The keychains a passport carries.
Keychains == { << >>, << "cck1" >> }
\* The scores a passport carries.
PassportScores == {0, 100}

\* core.Passport: the PassportDocument (Domain, Entity, Keys) and the key
\* its signature verifies under.
Passport(id, d, t, sc, ks, by) ==
    [domain |-> d, entity |-> AffDoc(id, d, t), score |-> sc, keys |-> ks,
     signedBy |-> by]
Passports ==
    { Passport(id, RemoteHost, t, sc, ks, DomainCCID(RemoteHost)) :
        id \in Signers, t \in {1, MaxTime}, sc \in PassportScores, ks \in Keychains }
    \cup { Passport(id, RemoteHost, MaxTime, 100, << "cck1" >>, "con1mallory") :
              id \in Signers }

\* The passport verifies under the CCID of the domain it names.
PassportValid(passport) ==
    /\ passport # None
    /\ DomainCCID(passport.domain) # ""
    /\ passport.signedBy = DomainCCID(passport.domain)

\* The UpdateScore calls of a passport that never re-applies the score.
NoScoreCalls(updated, passport) == << >>
\* The UpdateScore calls of a verified passport: the embedded score, when
\* the entity Affiliation returned has another.
ScoreCalls(updated, passport) ==
    IF updated.score # passport.score
    THEN << [id |-> updated.id, score |-> passport.score] >>
    ELSE << >>

\* repository.UpdateScore
RepoUpdateScore(tbl, id, score) ==
    { IF x.id = id THEN [x EXCEPT !.score = score] ELSE x : x \in tbl }

\* The entities table after the UpdateScore calls.
RECURSIVE ApplyScores(_, _)
ApplyScores(tbl, scoreCalls) ==
    IF scoreCalls = << >> THEN tbl
    ELSE ApplyScores(RepoUpdateScore(tbl, Head(scoreCalls).id, Head(scoreCalls).score),
                     Tail(scoreCalls))

\* The passport step: the tables it leaves, the keychain it records and the
\* UpdateScore calls it makes.
PassportStep(tbl, mt, count, used, cfg, passport) ==
    LET r == AffiliationResult(tbl, mt, count, used, cfg, passport.entity,
                               EmptyOption, FALSE)
        scoreCalls == ScoreCalls(r.ret, passport)
    IN  IF ~PassportValid(passport) \/ r.err # "nil"
        THEN [ok |-> FALSE, entities |-> tbl, count |-> count, keychain |-> None,
              scores |-> << >>]
        ELSE [ok |-> TRUE, entities |-> ApplyScores(r.entities, scoreCalls),
              count |-> r.count, keychain |-> passport.keys, scores |-> scoreCalls]

\* The token step: the requester the context names.
TokenStep(tbl, jwt, verified) ==
    LET found == RepoGet(tbl, jwt.issuer)
        entity == CHOOSE x \in found : TRUE
        Anonymous == [type |-> "Anonymous", id |-> "", domain |-> None]
    IN  IF ~jwt.ok \/ jwt.audience # FQDN \/ found = {} THEN Anonymous
        ELSE IF entity.domain = FQDN
        THEN [type |-> "LocalUser", id |-> entity.id, domain |-> None]
        ELSE IF verified
        THEN [type |-> "RemoteUser", id |-> entity.id, domain |-> entity.domain]
        ELSE Anonymous

\* service.IdentifyIdentity
IdentifyIdentity ==
    /\ \E jwt \in Jwts, passport \in Passports \cup {None} :
       \E p \in { IF passport = None
                  THEN [ok |-> FALSE, entities |-> entities, count |-> entityCount,
                        keychain |-> None, scores |-> << >>]
                  ELSE PassportStep(entities, metas, entityCount, jtis, config,
                                    passport) } :
       \E t \in { TokenStep(p.entities, jwt, p.ok) } :
          /\ p.count <= MaxCount
          /\ entities' = p.entities
          /\ entityCount' = p.count
          /\ lastReq' = [called |-> TRUE, jwt |-> jwt, passport |-> passport,
                         type |-> t.type, id |-> t.id, domain |-> t.domain,
                         keychain |-> p.keychain, scores |-> p.scores,
                         before |-> entities, after |-> p.entities]
    /\ UNCHANGED << metas, jtis, config, lastAff, restOfAuth >>

\* The affiliations that register the users, before the first request.
AuthDocuments == { AffDoc("con1", FQDN, 2), AffDoc("con2", RemoteHost, 2) }
AuthAffiliation == ~lastReq.called /\ AffiliationOf(AuthDocuments)

InitAuth ==
    /\ items = {}
    /\ mc = << >>
    /\ ChunkIdle
    /\ SvcInit

NextAuth ==
    \/ AuthAffiliation
    \/ IdentifyIdentity

SpecAuth == InitAuth /\ [][NextAuth]_vars

\* The token of the last request is valid and addressed to this domain.
ValidJwt == lastReq.called /\ lastReq.jwt.ok /\ lastReq.jwt.audience = FQDN

\* The last request had no passport and its issuer is an entity of this
\* domain.
LocalRequest ==
    /\ ValidJwt
    /\ lastReq.passport = None
    /\ \E x \in lastReq.before : x.id = lastReq.jwt.issuer /\ x.domain = FQDN

\* The last request had a passport of its issuer, signed by the peer it
\* names, and the issuer is an entity of that peer.
PassportRequest ==
    /\ ValidJwt
    /\ lastReq.passport # None
    /\ lastReq.passport.signedBy = DomainCCID(lastReq.passport.domain)
    /\ lastReq.passport.entity.signer = lastReq.jwt.issuer
    /\ \E x \in lastReq.after :
          x.id = lastReq.jwt.issuer /\ x.domain = lastReq.passport.domain

ByteBits == 8
CharBits == 5
\* The characters of a block and the bytes it decodes to.
BlockChars == 8
BlockBytes == 5

\* The alphabet of encoding/base32's StdEncoding.
stdEncoding ==
    << "A", "B", "C", "D", "E", "F", "G", "H", "I", "J", "K", "L", "M", "N", "O", "P",
       "Q", "R", "S", "T", "U", "V", "W", "X", "Y", "Z", "2", "3", "4", "5", "6", "7" >>
\* var encoding
encoding ==
    << "0", "1", "2", "3", "4", "5", "6", "7", "8", "9", "a", "b", "c", "d", "e", "f",
       "g", "h", "j", "k", "m", "n", "p", "q", "r", "s", "t", "v", "w", "x", "y", "z" >>

\* An encoder built on another alphabet than the decoder's.
StdEncodeMap(v) == stdEncoding[v + 1]
\* enc.encode[v]
EncodeMap(v) == encoding[v + 1]

\* enc.decodeMap[ch]: 0xFF for a character outside the alphabet.
DecodeMap(ch) ==
    IF \E i \in 1..Len(encoding) : encoding[i] = ch
    THEN (CHOOSE i \in 1..Len(encoding) : encoding[i] = ch) - 1
    ELSE 255

\* Bit i (1 is the most significant) of a value w bits wide.
BitOf(v, w, i) == (v \div (2 ^ (w - i))) % 2

\* The bits of a sequence of values w bits wide each.
BitsOf(vals, w) ==
    [k \in 1..(Len(vals) * w) |-> BitOf(vals[((k - 1) \div w) + 1], w, ((k - 1) % w) + 1)]

\* The value of the w bits that start at bit k, zero past the end.
RECURSIVE ValueAt(_, _, _)
ValueAt(bs, k, w) ==
    IF w = 0 THEN 0
    ELSE (IF k <= Len(bs) THEN bs[k] * (2 ^ (w - 1)) ELSE 0) + ValueAt(bs, k + 1, w - 1)

\* enc.EncodedLen without padding
EncodedLen(n) == (n * ByteBits + CharBits - 1) \div CharBits

\* enc.EncodeToString
EncodeToString(src) ==
    LET bs == BitsOf(src, ByteBits)
    IN  [j \in 1..EncodedLen(Len(src)) |->
            EncodeMap(ValueAt(bs, (j - 1) * CharBits + 1, CharBits))]

\* The bytes enc.decode writes for a block of dlen characters.
QuantumBytes(dlen) ==
    CASE dlen = 8 -> 5
      [] dlen = 7 -> 4
      [] dlen = 5 -> 3
      [] dlen = 4 -> 2
      [] dlen = 2 -> 1
      [] OTHER -> 0

\* The length of what enc.decode returns for n characters without padding.
DecodedLen(n) == (n \div BlockChars) * BlockBytes + QuantumBytes(n % BlockChars)

\* enc.DecodeString: the bytes and the error.
DecodeString(s) ==
    LET vals == [j \in 1..Len(s) |-> DecodeMap(s[j])]
        bs == BitsOf(vals, CharBits)
    IN  IF \E j \in 1..Len(s) : vals[j] = 255
        THEN [b |-> << >>, err |-> "illegal base32 data"]
        ELSE [b |-> [k \in 1..DecodedLen(Len(s)) |->
                        ValueAt(bs, ((k - 1) \div BlockBytes) * BlockChars * CharBits
                                      + ((k - 1) % BlockBytes) * ByteBits + 1,
                                ByteBits)],
              err |-> "nil"]

\* CDID.Bytes
Bytes(c) == c.data \o c.time

\* CDID.String
String(c) == EncodeToString(Bytes(c))

\* cdid.Parse
Parse(s) ==
    LET d == DecodeString(s)
    IN  IF d.err # "nil" THEN [c |-> ZeroCdid, err |-> d.err]
        ELSE IF Len(d.b) # DataLen + TimeLen THEN [c |-> ZeroCdid, err |-> "nil"]
        ELSE [c |-> [data |-> SubSeq(d.b, 1, DataLen),
                     time |-> SubSeq(d.b, DataLen + 1, DataLen + TimeLen)],
              err |-> "nil"]

\* The byte values the identifiers are drawn from.
ByteSamples == {0, 1, 90, 165, 255}
\* The CDID of sixteen bytes.
CdidOf(bs) ==
    [data |-> SubSeq(bs, 1, DataLen), time |-> SubSeq(bs, DataLen + 1, DataLen + TimeLen)]
\* The identifiers: every position with a byte apart from the others, and
\* every value of the last byte, whose low bits share a character with the
\* bits the encoder fills in.
CdidInputs ==
    { CdidOf([i \in 1..(DataLen + TimeLen) |-> IF i = k THEN a ELSE b]) :
        a \in ByteSamples, b \in ByteSamples, k \in 1..(DataLen + TimeLen) }
    \cup { CdidOf([i \in 1..(DataLen + TimeLen) |->
                      IF i = DataLen + TimeLen THEN a ELSE 0]) :
             a \in 0..(2 ^ ByteBits - 1) }

\* The string handed to Parse: the one String returned, that string without
\* its last character, or with a character outside the alphabet.
Handed(s) ==
    { s, SubSeq(s, 1, Len(s) - 1), [s EXCEPT ![1] = "u"] }

\* c.String()
CdidString ==
    /\ codec.stage = "new"
    /\ \E r \in { String(codec.c) } :
          codec' = [codec EXCEPT !.stage = "string", !.s = r]
    /\ UNCHANGED << chunkVars, commitVars, postVars, recentVars, entityVars, raceVars,
                    pullVars, rtVars, agentVars, countVars, fanVars, tlVars, rmVars,
                    normVars, authVars, sockVars >>

\* cdid.Parse(s)
CdidParse ==
    /\ codec.stage = "string"
    /\ \E given \in Handed(codec.s) :
       \E r \in { Parse(given) } :
          codec' = [codec EXCEPT !.stage = "parsed", !.given = given, !.out = r.c,
                                 !.err = r.err]
    /\ UNCHANGED << chunkVars, commitVars, postVars, recentVars, entityVars, raceVars,
                    pullVars, rtVars, agentVars, countVars, fanVars, tlVars, rmVars,
                    normVars, authVars, sockVars >>

InitCdid ==
    /\ items = {}
    /\ mc = << >>
    /\ ChunkIdle
    /\ CommitInit
    /\ PostInit
    /\ RecentInit
    /\ EntityInit
    /\ RaceInit
    /\ PullInit
    /\ RtInit
    /\ AgentInit
    /\ CountInit
    /\ FanInit
    /\ TlInit
    /\ RmInit
    /\ NormInit
    /\ AuthInit
    /\ SockInit
    /\ \E c \in CdidInputs : codec = [CodecIdle EXCEPT !.c = c]

NextCdid ==
    \/ CdidString
    \/ CdidParse

SpecCdid == InitCdid /\ [][NextCdid]_vars

\* C30: Parse of the string String renders a CDID to returns that CDID and
\* no error.
C30_ParseOfStringIsIdentity ==
    (codec.stage = "parsed" /\ codec.given = codec.s) =>
        /\ codec.out = codec.c
        /\ codec.err = "nil"

\* A CDID whose last byte has its low bits set has been rendered to 26
\* characters and parsed back.
C30_Witness ==
    /\ codec.stage = "parsed"
    /\ codec.given = codec.s
    /\ Len(codec.s) = 26
    /\ codec.c.time[TimeLen] = 255
    /\ codec.c.data[1] = 0
    /\ codec.out = codec.c

\* The string handed to Parse decodes, without error, to another number of
\* bytes than a CDID has.
WrongLength ==
    /\ codec.stage = "parsed"
    /\ \A j \in 1..Len(codec.given) : \E i \in 1..Len(encoding) : encoding[i] = codec.given[j]
    /\ DecodedLen(Len(codec.given)) # DataLen + TimeLen

\* C31: Parse returns an error for every string whose base32 decoding is
\* not 16 bytes long.
C31_WrongLengthIsRejected == WrongLength => codec.err # "nil"

(***************************************************************************)
(* agent.updateConnections over the websockets themselves: each dial makes *)
(* a socket with a reader goroutine of its own.                            *)
(***************************************************************************)
\* The dials made to one peer.
MaxDial == 2

\* The channels of the two peers.
SockChannels == { Id("t", "B", RemoteHost), Id("t", "D", OtherHost) }

\* The socket of the n-th dial to a peer.
SocketId(server, n) == << server, n >>

\* websocket.DefaultDialer.Dial and the goroutine launched on the socket.
Dialed == [open |-> TRUE, reader |-> TRUE]

\* The reader goroutine returns: ReadMessage failed, on a socket error or
\* because the socket was closed, and the deferred c.Close() runs.
ReaderStop ==
    /\ \E id \in DOMAIN socks :
          /\ socks[id].reader
          /\ socks' = [socks EXCEPT ![id] = [open |-> FALSE, reader |-> FALSE]]
    /\ UNCHANGED << conns, dials, lastTick, agentVars, restOfSock >>

\* The table after the dials: a peer of the list without an entry gets the
\* socket of a dial that succeeds.
ConnsAfterDial(table, count, serverList, dialOk) ==
    [server \in DOMAIN table \cup ((serverList \ DOMAIN table) \cap dialOk) |->
        IF server \in DOMAIN table THEN table[server]
        ELSE SocketId(server, count[server] + 1)]

\* websocket.WriteJSON succeeds on an open socket the network still carries.
WriteSucceeds(sockets, id, server, writeOk) == sockets[id].open /\ server \in writeOk

\* updateConnections, with the peers whose dial succeeds and the peers
\* whose socket the network still carries writes to.
UpdateConnectionsTick ==
    \E dialOk \in SUBSET Peers, writeOk \in SUBSET Peers :
    \E serverList \in { (DOMAIN summarize(pubsubChannels)) \ {FQDN} } :
    \E dialed \in { (serverList \ DOMAIN conns) \cap dialOk } :
    \E table \in { ConnsAfterDial(conns, dials, serverList, dialOk) } :
    \E opened \in { [id \in DOMAIN socks \cup { table[server] : server \in dialed } |->
                       IF id \in DOMAIN socks THEN socks[id] ELSE Dialed] } :
    \E wrote \in { { server \in serverList \cap DOMAIN table :
                       WriteSucceeds(opened, table[server], server, writeOk) } } :
    \E kept \in { (DOMAIN table \ (serverList \ wrote)) } :
        /\ \A server \in dialed : dials[server] < MaxDial
        /\ dials' = [server \in DOMAIN dials |->
                        IF server \in dialed THEN dials[server] + 1 ELSE dials[server]]
        /\ socks' = [id \in DOMAIN opened |->
                        IF \E server \in kept \ serverList : table[server] = id
                        THEN [opened[id] EXCEPT !.open = FALSE]
                        ELSE opened[id]]
        /\ conns' = [server \in kept \cap serverList |-> table[server]]
        /\ lastTick' =
             [called |-> TRUE,
              dead |-> { server \in serverList \cap DOMAIN conns :
                           ~socks[conns[server]].reader },
              dialOk |-> dialOk, writeOk |-> writeOk, dialed |-> dialed,
              sent |-> wrote]
        /\ UNCHANGED << agentVars, restOfSock >>

InitSocket ==
    /\ items = {}
    /\ mc = << >>
    /\ ChunkIdle
    /\ SvcInit

NextSocket ==
    \/ \E ch \in SockChannels : ChannelSubscribe(ch)
    \/ \E ch \in SockChannels : ChannelUnsubscribe(ch)
    \/ ReaderStop
    \/ UpdateConnectionsTick

SpecSocket == InitSocket /\ [][NextSocket]_vars

\* C32: a peer of the list whose reader had stopped when the tick began is
\* dialed in that tick and sent its channels, when the dial and the write
\* to the peer can succeed.
C32_StoppedReaderIsRedialed ==
    lastTick.called =>
        \A server \in lastTick.dead :
            (server \in lastTick.dialOk /\ server \in lastTick.writeOk) =>
                (server \in lastTick.dialed /\ server \in lastTick.sent)

\* The sockets of a peer that are open with their reader goroutine running.
LiveSockets(server) ==
    { id \in DOMAIN socks : id[1] = server /\ socks[id].open /\ socks[id].reader }

\* C40: no peer has two open sockets whose reader goroutines are running.
C40_OneReaderPerPeer == \A server \in Peers : Cardinality(LiveSockets(server)) <= 1

\* The newest item of the peer that is not after until.
NewestOfPeer(until) ==
    CHOOSE x \in peer : x.cDate <= until /\ \A y \in peer : y.cDate <= until => y.cDate <= x.cDate

\* The last call sent an RPC to the peer and the peer answered.
Fetched == recent.called /\ recent.rpcOk /\ recent.rpcs > 0

\* C33: what a call fetched from the peer and wrote to memcached is of an
\* epoch other than the current one or of a timeline with a live
\* subscription; for the current epoch of a timeline without subscription
\* the call writes no key; and the newest item the peer holds is returned
\* either way.
C33_PeerValuesCachedWhenKept ==
    /\ recent.called =>
          \A k \in recent.wrote :
              k.id.host = RemoteHost => Keepable(recent.now, recent.subs, k.e, k.id)
    /\ ( /\ Fetched
         /\ ~Keepable(recent.now, recent.subs, Time2Chunk(recent.until), RemoteOf(recent)) )
       => \A k \in recent.wrote : k.e # Time2Chunk(recent.until)
    /\ Fetched =>
          /\ Len(recent.out) > 0
          /\ recent.out[1].resourceID = NewestOfPeer(recent.until).resourceID
          /\ recent.out[1].cDate = NewestOfPeer(recent.until).cDate

\* A read of the current epoch without subscription has returned the item
\* of the peer and written nothing, and one has written both keys.
C33_Witness ==
    /\ Fetched
    /\ Len(recent.out) > 0
    /\ \/ /\ recent.subs = {}
          /\ Time2Chunk(recent.until) = Time2Chunk(recent.now)
          /\ recent.itr = Time2Chunk(recent.now)
          /\ recent.wrote = {}
       \/ /\ recent.subs # {}
          /\ Time2Chunk(recent.until) = Time2Chunk(recent.now)
          /\ Cardinality(recent.wrote) = 2

(***************************************************************************)
(* The chunk cache of a local timeline under creates with any CDate,       *)
(* deletions, reads and fills from a peer, every call run to its end       *)
(* before the next starts.                                                 *)
(***************************************************************************)
\* The timeline of the peer whose bodies are fetched.
PeerTimelineId == Id("t", TlBody, RemoteHost)

\* repository.DeleteItem: the row leaves the table; no cache key is touched.
DeleteItemCall ==
    /\ OthersAtRest("caller")
    /\ \E res \in Resources :
         /\ GetItem(items, LocalDbId(LocalTimeline), res) # {}
         /\ items' = DeleteItem(items, LocalDbId(LocalTimeline), res)
         /\ committed' = committed \ GetItem(items, LocalDbId(LocalTimeline), res)
    /\ UNCHANGED << mc, wr, rd, evictions >>
    /\ UNCHANGED svcVars

\* The Items of a chunk a peer answers with: JSON null, an empty list or a
\* list of items.
PeerChunks(epoch) ==
    { [null |-> TRUE, items |-> << >>],
      [null |-> FALSE, items |-> << >>],
      [null |-> FALSE, items |-> << Row(Id("", TlBody, RemoteHost), "m1", epoch) >>] }

\* "," + string(b[1:len(b)-1]) with b the json.Marshal of chunk.Items
CacheStr(chunk) ==
    << Comma >> \o (IF chunk.null THEN << JunkTok >> ELSE JoinItems(chunk.items))

\* LoadChunkBodies for a timeline of the peer whose body key is not in
\* memcached: loadRemoteBodies stores what the peer answered, unless the
\* epoch is the current one and the timeline has no live subscription.  (A
\* hit, a failed RPC and a skipped entry leave every variable as it is.)
LoadRemoteBodiesCall ==
    /\ OthersAtRest("caller")
    /\ \E epoch \in Epochs :
       \E chunk \in PeerChunks(epoch) :
         /\ ~McHas(mc, McKey(tlBodyCachePrefix, PeerTimelineId, epoch))
         /\ RemoteKeep(epoch, PeerTimelineId)
         /\ mc' = McSet(mc, McKey(tlBodyCachePrefix, PeerTimelineId, epoch), CacheStr(chunk))
    /\ UNCHANGED << items, wr, rd, committed, evictions >>
    /\ UNCHANGED svcVars

NextLocal ==
    \/ NextSerial
    \/ DeleteItemCall
    \/ LoadRemoteBodiesCall

SpecLocal == Init /\ [][NextLocal]_vars

\* No call is in progress.
AtRest == OthersAtRest("nobody")

\* The stored rows of the local timeline up to the end of an epoch.
StoredUntil(epoch) ==
    RowsUntil(items, LocalDbId(LocalTimeline), Chunk2RecentTime(epoch))
\* The stored rows of the local timeline inside an epoch.
StoredIn(epoch) ==
    RowsBetween(items, LocalDbId(LocalTimeline), Chunk2RecentTime(PrevChunk(epoch)),
                Chunk2RecentTime(epoch))

\* The iterator value itr is right for the epoch: rows exist up to its end
\* and itr is the epoch of the newest of them.
LatestNonEmpty(epoch, itr) ==
    /\ StoredUntil(epoch) # {}
    /\ itr = Time2Chunk(MaxCDate(StoredUntil(epoch)))

(***************************************************************************)
(* C34: the iterator cached or returned for the local timeline and an      *)
(* epoch E names the latest non-empty epoch not after E: the epoch of the  *)
(* newest stored item with CDate up to the end of E.                       *)
(***************************************************************************)
C34_IteratorNamesLatestEpoch ==
    /\ AtRest =>
          \A epoch \in Epochs :
              McHas(mc, McKey(tlItrCachePrefix, LocalTimeline, epoch)) =>
                  LatestNonEmpty(epoch, mc[McKey(tlItrCachePrefix, LocalTimeline, epoch)])
    /\ \A r \in Readers :
          rd[r].pc = "bodyGet" => LatestNonEmpty(rd[r].epoch, rd[r].itr)

\* The body text stored for the local timeline and an epoch.
LocalBody(epoch) == mc[McKey(tlBodyCachePrefix, LocalTimeline, epoch)]

\* The items are in reverse-chronological order.
Descending(s) == \A a, b \in 1..Len(s) : a < b => s[a].cDate >= s[b].cDate

(***************************************************************************)
(* C35: with no call in progress, every value stored under                 *)
(* tl:body:<T>:<E> is a comma-prefixed list whose items all belong to T,   *)
(* all have their CDate inside E, are in reverse-chronological order and   *)
(* include every stored item of that epoch.                                *)
(***************************************************************************)
C35_BodyIsTheEpochsItems ==
    AtRest =>
        \A epoch \in Epochs :
            McHas(mc, McKey(tlBodyCachePrefix, LocalTimeline, epoch)) =>
                /\ Len(LocalBody(epoch)) > 0
                /\ LocalBody(epoch)[1] = Comma
                /\ IsJsonList(DropFirstTok(LocalBody(epoch)))
                /\ \A i \in SeqRange(JsonItems(DropFirstTok(LocalBody(epoch)))) :
                      /\ LocalDbId(i.timelineID) = LocalDbId(LocalTimeline)
                      /\ Time2Chunk(i.cDate) = epoch
                /\ Descending(JsonItems(DropFirstTok(LocalBody(epoch))))
                /\ \A x \in StoredIn(epoch) :
                      x.resourceID \in ResourcesOf(JsonItems(DropFirstTok(LocalBody(epoch))))

(***************************************************************************)
(* C36: on a body-cache miss for the local timeline and an epoch E, the    *)
(* chunk that loadLocalBody caches and returns holds every stored item     *)
(* whose CDate lies in E and no item older than the start of E.            *)
(***************************************************************************)
C36_MissReturnsTheEpoch ==
    \A r \in Readers :
        rd[r].pc = "bodySet" =>
            /\ \A x \in StoredIn(rd[r].itr) : x.resourceID \in ResourcesOf(rd[r].rows)
            /\ \A n \in 1..Len(rd[r].rows) :
                  rd[r].rows[n].cDate > Chunk2RecentTime(PrevChunk(rd[r].itr))

(***************************************************************************)
(* C38: every value stored under a tl:body key decodes with the reader's   *)
(* rule: the first byte dropped and brackets put around it, it is a JSON   *)
(* list.                                                                   *)
(***************************************************************************)
C38_EveryBodyDecodes ==
    \A k \in DOMAIN mc :
        k.p = tlBodyCachePrefix =>
            /\ Len(mc[k]) > 0
            /\ IsJsonList(DropFirstTok(mc[k]))

(***************************************************************************)
(* C39: LoadChunkBodies for the local timeline completes normally also     *)
(* when no stored item has a CDate up to the end of the requested epoch:   *)
(* no read ends in a panic.                                                *)
(***************************************************************************)
C39_LoadCompletesNormally ==
    \A r \in Readers : rd[r].pc # "panic"

\* The last call applied an affiliation of this domain to an entity that
\* existed.
LocalApplied ==
    /\ lastAff.called
    /\ lastAff.doc.parsed
    /\ lastAff.doc.domain = FQDN
    /\ lastAff.err = "nil"
    /\ RowsOf(lastAff.before, lastAff) # {}
    /\ ~OlderThanStored(lastAff)

\* C37: a local affiliation applied to an existing entity leaves the
\* entity's Tag, Score and IsScoreFixed as they were.
C37_LocalAffiliationKeepsScore ==
    LocalApplied =>
        \A old \in RowsOf(lastAff.before, lastAff) :
            \A new \in RowsOf(lastAff.after, lastAff) :
                /\ new.tag = old.tag
                /\ new.score = old.score
                /\ new.isScoreFixed = old.isScoreFixed
====
